---------------------------- MODULE Spec2Model ----------------------------
(***************************************************************************)
(* A model of buckshot's multi-agent execution engine.                     *)
(*                                                                         *)
(*   Spec          the round orchestrator (orchestrator.RunRound) driven   *)
(*                 either directly or by the planning loop (cli.runPlan),  *)
(*                 with the agents' child processes and the bd tracker.    *)
(*   SpecDispatch  the parallel dispatcher (dispatch.Dispatch) with its    *)
(*                 worker goroutines, result channel and collector.        *)
(*   SpecSession   one interactive session (DefaultSession) with its child *)
(*                 process and the goroutines that read its output.        *)
(*   SpecConvergence  a convergence detector under any sequence of calls.  *)
(*   SpecOneShot   one call of session.RunOneShot.                         *)
(***************************************************************************)
EXTENDS Integers, Sequences, FiniteSets, TLC

(***************************************************************************)
(* Bounds of the model.                                                    *)
(***************************************************************************)
MaxAgents == 2
MaxTracker == 2
MaxRounds == 2
MaxSessions == 2
MaxStarts == 2
MaxLines == 2
MaxSends == 2
MaxChecks == 2
MaxParseLines == 2
MaxBeads == 2

(***************************************************************************)
(* Program constants.                                                      *)
(***************************************************************************)
SafetyLimit == 100
DefaultThreshold == 1

AgentNames == <<"claude", "codex", "cursor", "auggie">>

VARIABLES
    tracker,        \* the external bd tracker: a version, bumped by each change
    bdAvailable,    \* whether the bd binary works in this environment
    entry,          \* who calls RunRound: "runPlan" or "RunRound" (a direct call)
    orch,           \* defaultOrchestrator: which collaborators are set
    flags,          \* the plan command's flags
    detected,       \* the agents handed in (runPlan: what agentDetector returned)
    planPc,         \* runPlan's position
    planCtx,        \* runPlan's planning context
    round,          \* runPlan's loop variable
    convDetector,   \* convergence.defaultDetector
    planOutcome,    \* how runPlan's loop ended
    roundCalls,     \* how many times runPlan has called RunRound
    rpc,            \* RunRound's position
    agents,         \* RunRound's agents parameter
    rctx,           \* RunRound's planCtx parameter (passed by value)
    i,              \* RunRound's loop index, 1-based
    result,         \* RunRound's RoundResult
    retErr,         \* RunRound's returned error
    sessions,       \* the sessions created by this RunRound, in creation order
    beadsBefore,    \* RunRound's beadsBefore local
    events,         \* what the progress reporter received in this round
    calls,          \* session operations made in this round: <<agent index, op>>
    sendLog,        \* the prompts sent in this round
    prevEndSnap,    \* what the final refresh of the round before this one read
    changedInRound  \* an agent changed the tracker since this round began

VARIABLES
    dSessions,      \* Dispatch's sessions parameter
    dNil,           \* whether that slice is nil
    dKind,          \* the Session implementation behind the sessions
    dCtx,           \* Dispatch's ctx: "active", "canceled" or "deadline exceeded"
    dpc,            \* Dispatch's own position
    spawned,        \* how many sessions the fan-out loop has handled
    wg,             \* the WaitGroup's counter
    worker,         \* each worker goroutine's position
    sendRet,        \* what each session's Send returned
    resultCh,       \* the buffered result channel
    chClosed,       \* whether the channel has been closed
    closer,         \* the position of the goroutine that closes the channel
    dResults,       \* the collector's results slice
    dRet,           \* what Dispatch returned
    atCancel        \* the sessions whose Send was in flight when the context ended

VARIABLES
    started,        \* DefaultSession.started
    alive,          \* DefaultSession.alive
    contextUsage,   \* DefaultSession.contextUsage, in percent
    outputBuffer,   \* DefaultSession.outputBuffer: the lines written to it
    cmdProcess,     \* the child process: "none", "running", "exited" or "reaped"
    pipeQ,          \* per output pipe, the lines the child wrote and no reader took
    reader,         \* the readOutput goroutines, per process and pipe
    sendPc,         \* the position of the Send call in progress
    lastOp,         \* the last call that returned, with what it returned
    life,           \* the session's lifecycle state as its caller knows it
    spawns,         \* how many child processes have been spawned
    kills,          \* how many times a process was killed and reaped
    written,        \* how many prompts were written to the child's standard input
    emitted,        \* how many lines the children have written
    pipeDead        \* a Send has failed writing the prompt to a dead pipe

VARIABLES
    detLast,        \* the last call made on the detector, with what it returned
    detHistory      \* the rounds checked and the resets made, oldest first

VARIABLES
    shotPc,         \* RunOneShot's position
    shotAgent,      \* RunOneShot's ag parameter: is the binary there, is a parser set
    shotCtx,        \* RunOneShot's ctx: "active" or "deadline exceeded"
    shotProc,       \* the child process: "none", "running", "exited" or "killed"
    shotCode,       \* the exit code of a child that exited by itself
    outputBuf,      \* RunOneShot's outputBuf: the lines the child wrote
    shotRet         \* what RunOneShot returned

VARIABLES
    fnName,         \* the function called, "none" before the call
    fnArg,          \* what it is called with
    fnRet           \* what it returned

detVars == <<detLast, detHistory>>
shotVars == <<shotPc, shotAgent, shotCtx, shotProc, shotCode, outputBuf, shotRet>>
fnVars == <<fnName, fnArg, fnRet>>
libVars == <<detVars, shotVars, fnVars>>

sessVars == <<started, alive, contextUsage, outputBuffer, cmdProcess, pipeQ, reader,
              sendPc, lastOp, life, spawns, kills, written, emitted, pipeDead>>

dispatchVars == <<dSessions, dNil, dKind, dCtx, dpc, spawned, wg, worker,
                  sendRet, resultCh, chClosed, closer, dResults, dRet, atCancel>>

planVars == <<planPc, planCtx, round, convDetector, planOutcome, roundCalls,
             prevEndSnap>>
roundVars == <<rpc, agents, rctx, i, result, retErr, sessions, beadsBefore,
               events, calls, sendLog, changedInRound>>
cfgVars == <<bdAvailable, entry, orch, flags, detected>>
orchVars == <<tracker, cfgVars, planVars, roundVars>>
vars == <<orchVars, dispatchVars, sessVars, libVars>>

(***************************************************************************)
(* The tracker's text surface.                                             *)
(***************************************************************************)
Nil == "nil"
EmptyString == <<>>
Placeholder == <<"(No beads found or bd command unavailable)">>

\* `bd list` plus `bd show` of every listed id, at tracker version v
BdList(v) == <<"=== Beads List ===", v>>

\* `bd list --json` at tracker version v
BdListJSON(v) == <<"json", v>>

RefreshBeadsState(ctx) ==
    [ctx EXCEPT !.BeadsState = IF bdAvailable THEN BdList(tracker) ELSE Placeholder]

Build(prompt, agentsPath, rnd, isFirstTurn) ==
    RefreshBeadsState([Prompt |-> prompt, AgentsPath |-> agentsPath,
                       BeadsState |-> EmptyString, Round |-> rnd,
                       IsFirstTurn |-> isFirstTurn])

Format(ctx) ==
    [kind |-> "formatted",
     agentGuidance |-> ctx.IsFirstTurn,
     roundHeader |-> IF ctx.Round > 1 THEN ctx.Round ELSE 0,
     prompt |-> ctx.Prompt,
     agentsPath |-> ctx.AgentsPath,
     beads |-> ctx.BeadsState]

RawPrompt(ctx) ==
    [kind |-> "raw", agentGuidance |-> FALSE, roundHeader |-> 0,
     prompt |-> ctx.Prompt, agentsPath |-> EmptyString, beads |-> EmptyString]

captureBeadsState == IF bdAvailable THEN BdListJSON(tracker) ELSE EmptyString


\* orchestrator.diffBeadsState; the line-level diff is kept as the pair it is
\* computed from
diffBeadsState(before, after) ==
    IF before = after THEN <<"(no changes)">>
    ELSE IF before = EmptyString THEN <<"(beads initialized)", after>>
    ELSE IF after = EmptyString THEN <<"(beads cleared)">>
    ELSE <<"diff", before, after>>

(***************************************************************************)
(* Agent and round results.                                                *)
(***************************************************************************)
Outputs == {"", "Created: buckshot-1"}

NoResponse == [Output |-> "", Error |-> Nil]

parseBeadChanges(output) == <<>>

NewAgentResult(ag) ==
    [Agent |-> ag, Response |-> NoResponse, BeadsChanged |-> <<>>,
     Error |-> Nil, Skipped |-> FALSE]

NewRoundResult(ctx) ==
    [Round |-> ctx.Round, AgentResults |-> <<>>, TotalChanges |-> 0,
     FailedCount |-> 0, SkippedCount |-> 0]

\* mutant: the authentication check is missing
ShouldSkip_Never(ag) == FALSE

ShouldSkip(ag) == ~ag.Authenticated

RecordSkip(res, ag) ==
    [res EXCEPT !.SkippedCount = @ + 1,
                !.AgentResults = Append(@, [NewAgentResult(ag) EXCEPT !.Skipped = TRUE])]

\* mutant: a failed turn is appended but not counted
RecordFailure_NotCounted(res, ag, err, resp) ==
    [res EXCEPT !.AgentResults = Append(@, [NewAgentResult(ag) EXCEPT
                                               !.Error = err, !.Response = resp])]

\* mutant: a failed turn is counted but its result is not appended
RecordFailure_NotAppended(res, ag, err, resp) ==
    [res EXCEPT !.FailedCount = @ + 1]

RecordFailure(res, ag, err, resp) ==
    [res EXCEPT !.FailedCount = @ + 1,
                !.AgentResults = Append(@, [NewAgentResult(ag) EXCEPT
                                               !.Error = err, !.Response = resp])]

RecordSuccess(res, ag, resp) ==
    LET changed == parseBeadChanges(resp.Output) IN
    [res EXCEPT !.TotalChanges = @ + Len(changed),
                !.AgentResults = Append(@, [NewAgentResult(ag) EXCEPT
                                               !.Response = resp,
                                               !.BeadsChanged = changed])]

\* the agentResult of a turn, as it stands when the turn ends
SkippedResult(ag) == [NewAgentResult(ag) EXCEPT !.Skipped = TRUE]

FailedResult(ag, err, resp) ==
    [NewAgentResult(ag) EXCEPT !.Error = err, !.Response = resp]

SuccessResult(ag, resp) ==
    [NewAgentResult(ag) EXCEPT !.Response = resp,
                               !.BeadsChanged = parseBeadChanges(resp.Output)]

\* mutant: the reporter's calls are put in front of the earlier ones
Report_NewestFirst(evs, kind, idx, res, diff) ==
    IF orch.progressReporter
    THEN <<[kind |-> kind, idx |-> idx, res |-> res, diff |-> diff]>> \o evs
    ELSE evs

\* the progress reporter's calls, when one is set: OnAgentStart is handed the
\* agent, OnAgentComplete the agentResult and the beads diff
Report(evs, kind, idx, res, diff) ==
    IF orch.progressReporter
    THEN Append(evs, [kind |-> kind, idx |-> idx, res |-> res, diff |-> diff])
    ELSE evs

(***************************************************************************)
(* orchestrator.RunRound                                                   *)
(***************************************************************************)
\* the state a call of RunRound(ctx, ags, pctx) starts in
EnterRunRound(ags, pctx) ==
    /\ rpc' = "loop"
    /\ agents' = ags
    /\ rctx' = pctx
    /\ i' = 1
    /\ result' = NewRoundResult(pctx)
    /\ retErr' = Nil
    /\ sessions' = <<>>
    /\ beadsBefore' = EmptyString
    /\ events' = <<>>
    /\ calls' = {}
    /\ sendLog' = <<>>
    /\ changedInRound' = FALSE

\* the turn ends: the loop moves to the next agent
NextAgent ==
    /\ i' = i + 1
    /\ rpc' = "loop"

SkipAgent ==
    /\ rpc = "loop"
    /\ i <= Len(agents)
    /\ ShouldSkip(agents[i])
    /\ result' = RecordSkip(result, agents[i])
    /\ events' = Report(events, "complete", i, SkippedResult(agents[i]), EmptyString)
    /\ NextAgent
    /\ UNCHANGED <<libVars, sessVars, dispatchVars, tracker, cfgVars, planVars, agents, rctx, retErr, sessions,
                   beadsBefore, calls, sendLog, changedInRound>>

BeginTurn ==
    /\ rpc = "loop"
    /\ i <= Len(agents)
    /\ ~ShouldSkip(agents[i])
    /\ events' = Report(events, "start", i, NewAgentResult(agents[i]), EmptyString)
    /\ beadsBefore' = captureBeadsState
    /\ rctx' = IF i > 1 /\ orch.contextBuilder THEN RefreshBeadsState(rctx) ELSE rctx
    /\ rpc' = "create"
    /\ UNCHANGED <<libVars, sessVars, dispatchVars, tracker, cfgVars, planVars, agents, i, result, retErr,
                   sessions, calls, sendLog, changedInRound>>

NoSessionManager ==
    /\ rpc = "create"
    /\ ~orch.sessionMgr
    /\ result' = RecordFailure(result, agents[i], "context canceled", NoResponse)
    /\ events' = Report(events, "complete", i,
                        FailedResult(agents[i], "context canceled", NoResponse), EmptyString)
    /\ NextAgent
    /\ UNCHANGED <<libVars, sessVars, dispatchVars, tracker, cfgVars, planVars, agents, rctx, retErr, sessions,
                   beadsBefore, calls, sendLog, changedInRound>>

CreateSessionOk ==
    /\ rpc = "create"
    /\ orch.sessionMgr
    /\ calls' = calls \cup {<<i, "CreateSession">>}
    /\ sessions' = Append(sessions, [agent |-> i, state |-> "created",
                                     prompted |-> FALSE, closes |-> 0])
    /\ rpc' = "start"
    /\ UNCHANGED <<libVars, sessVars, dispatchVars, tracker, cfgVars, planVars, agents, rctx, i, result, retErr,
                   beadsBefore, events, sendLog, changedInRound>>

\* mutant: a CreateSession failure ends the round with that error
CreateSessionFail_Abort ==
    /\ rpc = "create"
    /\ orch.sessionMgr
    /\ calls' = calls \cup {<<i, "CreateSession">>}
    /\ retErr' = "create session failed"
    /\ rpc' = "defers"
    /\ UNCHANGED <<libVars, sessVars, dispatchVars, tracker, cfgVars, planVars, agents, rctx, i, result, sessions,
                   beadsBefore, events, sendLog, changedInRound>>

CreateSessionFail ==
    /\ rpc = "create"
    /\ orch.sessionMgr
    /\ calls' = calls \cup {<<i, "CreateSession">>}
    /\ result' = RecordFailure(result, agents[i], "create session failed", NoResponse)
    /\ events' = Report(events, "complete", i,
                        FailedResult(agents[i], "create session failed", NoResponse), EmptyString)
    /\ NextAgent
    /\ UNCHANGED <<libVars, sessVars, dispatchVars, tracker, cfgVars, planVars, agents, rctx, retErr, sessions,
                   beadsBefore, sendLog, changedInRound>>

StartOk ==
    /\ rpc = "start"
    /\ calls' = calls \cup {<<i, "Start">>}
    /\ sessions' = [sessions EXCEPT ![Len(sessions)].state = "started"]
    /\ rpc' = "send"
    /\ UNCHANGED <<libVars, sessVars, dispatchVars, tracker, cfgVars, planVars, agents, rctx, i, result, retErr,
                   beadsBefore, events, sendLog, changedInRound>>

StartFail ==
    /\ rpc = "start"
    /\ calls' = calls \cup {<<i, "Start">>}
    /\ result' = RecordFailure(result, agents[i], "start failed", NoResponse)
    /\ events' = Report(events, "complete", i,
                        FailedResult(agents[i], "start failed", NoResponse), EmptyString)
    /\ NextAgent
    /\ UNCHANGED <<libVars, sessVars, dispatchVars, tracker, cfgVars, planVars, agents, rctx, retErr, sessions,
                   beadsBefore, sendLog, changedInRound>>

\* the prompt of this turn
TurnPrompt == IF orch.contextBuilder THEN Format(rctx) ELSE RawPrompt(rctx)

SendOk ==
    /\ rpc = "send"
    /\ calls' = calls \cup {<<i, "Send">>}
    /\ sessions' = [sessions EXCEPT ![Len(sessions)].prompted = TRUE]
    /\ sendLog' = Append(sendLog, [idx |-> i, prompt |-> TurnPrompt,
                                   tracker |-> tracker])
    /\ \E out \in Outputs :
          LET resp == [Output |-> out, Error |-> Nil] IN
          /\ result' = RecordSuccess(result, agents[i], resp)
          /\ events' = Report(events, "complete", i, SuccessResult(agents[i], resp),
                              diffBeadsState(beadsBefore, captureBeadsState))
    /\ NextAgent
    /\ UNCHANGED <<libVars, sessVars, dispatchVars, tracker, cfgVars, planVars, agents, rctx, retErr,
                   beadsBefore, changedInRound>>

SendFail ==
    /\ rpc = "send"
    /\ calls' = calls \cup {<<i, "Send">>}
    /\ result' = RecordFailure(result, agents[i], "send failed",
                               [Output |-> "", Error |-> "send failed"])
    /\ events' = Report(events, "complete", i,
                        FailedResult(agents[i], "send failed",
                                     [Output |-> "", Error |-> "send failed"]),
                        diffBeadsState(beadsBefore, captureBeadsState))
    /\ NextAgent
    /\ UNCHANGED <<libVars, sessVars, dispatchVars, tracker, cfgVars, planVars, agents, rctx, retErr, sessions,
                   beadsBefore, sendLog, changedInRound>>

\* after the loop: the final refresh, then the return statement, which starts
\* the deferred Close calls
EndLoop ==
    /\ rpc = "loop"
    /\ i > Len(agents)
    /\ rctx' = IF orch.contextBuilder /\ Len(agents) > 0
               THEN RefreshBeadsState(rctx) ELSE rctx
    /\ retErr' = Nil
    /\ rpc' = "defers"
    /\ UNCHANGED <<libVars, sessVars, dispatchVars, tracker, cfgVars, planVars, agents, i, result, sessions,
                   beadsBefore, events, calls, sendLog, changedInRound>>

\* the deferred closes still to run, last registered first
PendingDefers == {k \in DOMAIN sessions : sessions[k].closes = 0}

Max(S) == CHOOSE x \in S : \A y \in S : y <= x

\* Session.Close of session k: the child process is killed and reaped
CloseSession(k) ==
    sessions' = [sessions EXCEPT ![k].state = "closed", ![k].closes = @ + 1]

RunDeferredClose ==
    /\ rpc = "defers"
    /\ PendingDefers # {}
    /\ CloseSession(Max(PendingDefers))
    /\ UNCHANGED <<libVars, sessVars, dispatchVars, tracker, cfgVars, planVars, rpc, agents, rctx, i, result,
                   retErr, beadsBefore, events, calls, sendLog, changedInRound>>

\* mutant: the round returns without waiting for its deferred closes
ReturnRound_DefersDropped ==
    /\ rpc = "defers"
    /\ rpc' = "returned"
    /\ UNCHANGED <<libVars, sessVars, dispatchVars, tracker, cfgVars, planVars, agents, rctx, i, result, retErr,
                   sessions, beadsBefore, events, calls, sendLog, changedInRound>>

ReturnRound ==
    /\ rpc = "defers"
    /\ PendingDefers = {}
    /\ rpc' = "returned"
    /\ UNCHANGED <<libVars, sessVars, dispatchVars, tracker, cfgVars, planVars, agents, rctx, i, result, retErr,
                   sessions, beadsBefore, events, calls, sendLog, changedInRound>>

(***************************************************************************)
(* An agent's child process.  It lives from a successful Start to Close,   *)
(* and once it has been handed a prompt it works on it on its own time:    *)
(* Send returns as soon as the prompt is written.                          *)
(***************************************************************************)
ProcessAlive(k) == sessions[k].state = "started"

AgentChangesTracker(k) ==
    /\ bdAvailable
    /\ ProcessAlive(k)
    /\ sessions[k].prompted
    /\ tracker < MaxTracker
    /\ tracker' = tracker + 1
    /\ changedInRound' = TRUE
    /\ UNCHANGED <<libVars, sessVars, dispatchVars, cfgVars, planVars, rpc, agents, rctx, i, result, retErr,
                   sessions, beadsBefore, events, calls, sendLog>>

(***************************************************************************)
(* convergence.defaultDetector                                             *)
(***************************************************************************)
NewDetector == [threshold |-> DefaultThreshold, consecutiveNoChange |-> 0]

\* mutant: only TotalChanges is looked at
IsConverged_TotalOnly(res) == ~(res.TotalChanges > 0)

IsConverged(res) ==
    /\ ~(res.TotalChanges > 0)
    /\ \A k \in DOMAIN res.AgentResults :
          LET ar == res.AgentResults[k] IN
          ar.Skipped \/ ar.Error # Nil \/ ~(Len(ar.BeadsChanged) > 0)

\* mutant: a round with changes leaves the streak as it is
CheckConvergence_NeverReset(d, res) ==
    [d EXCEPT !.consecutiveNoChange = IF IsConverged(res) THEN @ + 1 ELSE @]

\* the detector after CheckConvergence(res); its return value is
\* CheckConvergenceResult of the detector it leaves
CheckConvergence(d, res) ==
    [d EXCEPT !.consecutiveNoChange = IF IsConverged(res) THEN @ + 1 ELSE 0]

CheckConvergenceResult(d) == d.consecutiveNoChange >= d.threshold

(***************************************************************************)
(* cli.runPlan                                                             *)
(***************************************************************************)
UserPrompt == "Build user authentication"
AgentsPath == "AGENTS.md"

\* the authenticated agents of a list, in order
FilterAuthenticated(ags) == SelectSeq(ags, LAMBDA a : a.Authenticated)

\* the loop's bound
PlanMaxRounds == IF flags.untilConverged THEN SafetyLimit ELSE flags.rounds

\* detection, filtering and the initial planning context
RunPlanSetup ==
    /\ planPc = "start"
    /\ IF Len(FilterAuthenticated(detected)) = 0
       THEN /\ planPc' = "done"
            /\ planOutcome' = "no agents"
            /\ UNCHANGED planCtx
       ELSE /\ planCtx' = Build(UserPrompt, AgentsPath, 1, TRUE)
            /\ planPc' = "loop"
            /\ UNCHANGED planOutcome
    /\ UNCHANGED <<libVars, sessVars, dispatchVars, tracker, cfgVars, round, convDetector,
                   roundCalls, prevEndSnap, roundVars>>

\* mutant: the planning context keeps the round number it was built with
PlanRound_RoundNotSet ==
    /\ planPc = "loop"
    /\ IF round <= PlanMaxRounds
       THEN /\ EnterRunRound(FilterAuthenticated(detected), planCtx)
            /\ roundCalls' = roundCalls + 1
            /\ planPc' = "round"
            /\ UNCHANGED <<planCtx, planOutcome>>
       ELSE /\ planPc' = "done"
            /\ planOutcome' = "loop ended"
            /\ UNCHANGED <<planCtx, roundCalls, roundVars>>
    /\ UNCHANGED <<libVars, sessVars, dispatchVars, tracker, cfgVars, round, convDetector, prevEndSnap>>

\* the head of the round loop: the call of RunRound, or the loop's end
PlanRound ==
    /\ planPc = "loop"
    /\ IF round <= PlanMaxRounds
       THEN /\ planCtx' = [planCtx EXCEPT !.Round = round,
                                          !.IsFirstTurn = (round = 1)]
            /\ EnterRunRound(FilterAuthenticated(detected), planCtx')
            /\ roundCalls' = roundCalls + 1
            /\ planPc' = "round"
            /\ UNCHANGED planOutcome
       ELSE /\ planPc' = "done"
            /\ planOutcome' = "loop ended"
            /\ UNCHANGED <<planCtx, roundCalls, roundVars>>
    /\ UNCHANGED <<libVars, sessVars, dispatchVars, tracker, cfgVars, round, convDetector, prevEndSnap>>

\* notes.SaveRoundResults: `bd update <id> --notes`, which changes the tracker
SaveRoundResults ==
    IF flags.save /\ bdAvailable /\ Len(result.AgentResults) > 0 /\ tracker < MaxTracker
    THEN tracker + 1
    ELSE tracker

\* mutant: a converged round does not end the loop
PlanAfterRound_IgnoresConvergence ==
    /\ planPc = "round"
    /\ rpc = "returned"
    /\ rpc' = "idle"
    /\ prevEndSnap' = rctx.BeadsState
    /\ tracker' = SaveRoundResults
    /\ convDetector' = IF flags.untilConverged
                       THEN CheckConvergence(convDetector, result)
                       ELSE convDetector
    /\ IF ~flags.untilConverged /\ round >= flags.rounds
       THEN /\ planPc' = "done"
            /\ planOutcome' = "completed"
            /\ UNCHANGED round
       ELSE /\ planPc' = "loop"
            /\ round' = round + 1
            /\ UNCHANGED planOutcome
    /\ UNCHANGED <<libVars, sessVars, dispatchVars, cfgVars, planCtx, roundCalls, agents, rctx, i,
                   result, retErr, sessions, beadsBefore, events, calls, sendLog,
                   changedInRound>>

\* RunRound has returned: report, save, check convergence, go on or stop
PlanAfterRound ==
    /\ planPc = "round"
    /\ rpc = "returned"
    /\ rpc' = "idle"
    /\ prevEndSnap' = rctx.BeadsState
    /\ IF retErr # Nil
       THEN /\ planPc' = "done"
            /\ planOutcome' = "round failed"
            /\ UNCHANGED <<tracker, round, convDetector>>
       ELSE /\ tracker' = SaveRoundResults
            /\ convDetector' = IF flags.untilConverged
                               THEN CheckConvergence(convDetector, result)
                               ELSE convDetector
            /\ IF flags.untilConverged /\ CheckConvergenceResult(convDetector')
               THEN /\ planPc' = "done"
                    /\ planOutcome' = "converged"
                    /\ UNCHANGED round
               ELSE IF ~flags.untilConverged /\ round >= flags.rounds
               THEN /\ planPc' = "done"
                    /\ planOutcome' = "completed"
                    /\ UNCHANGED round
               ELSE /\ planPc' = "loop"
                    /\ round' = round + 1
                    /\ UNCHANGED planOutcome
    /\ UNCHANGED <<libVars, sessVars, dispatchVars, cfgVars, planCtx, roundCalls, agents, rctx, i,
                   result, retErr, sessions, beadsBefore, events, calls, sendLog,
                   changedInRound>>

(***************************************************************************)
(* Initial states: a direct call of RunRound on any agent list and any     *)
(* orchestrator wiring, or a run of the plan command.                      *)
(***************************************************************************)
AgentLists ==
    UNION {{[k \in 1..n |-> [Name |-> AgentNames[k], Authenticated |-> auth[k]]] :
              auth \in [1..n -> BOOLEAN]} : n \in 0..MaxAgents}

DefaultFlags ==
    [rounds |-> 0, untilConverged |-> FALSE, verbose |-> FALSE, save |-> FALSE]

\* the planning context a direct caller passes
DirectContext ==
    [Prompt |-> UserPrompt, AgentsPath |-> AgentsPath, BeadsState |-> EmptyString,
     Round |-> 1, IsFirstTurn |-> FALSE]

InitDirect ==
    /\ entry = "RunRound"
    /\ orch \in [sessionMgr : BOOLEAN, contextBuilder : BOOLEAN,
                 progressReporter : BOOLEAN]
    /\ flags = DefaultFlags
    /\ planPc = "idle"
    /\ planCtx = DirectContext
    /\ rpc = "loop"
    /\ agents = detected
    /\ rctx = DirectContext
    /\ result = NewRoundResult(DirectContext)

InitPlan ==
    /\ entry = "runPlan"
    /\ flags \in [rounds : 0..MaxRounds, untilConverged : BOOLEAN,
                  verbose : BOOLEAN, save : BOOLEAN]
    /\ orch = [sessionMgr |-> TRUE, contextBuilder |-> TRUE,
               progressReporter |-> flags.verbose]
    /\ planPc = "start"
    /\ planCtx = DirectContext
    /\ rpc = "idle"
    /\ agents = <<>>
    /\ rctx = DirectContext
    /\ result = NewRoundResult(DirectContext)

InitOrchestrator ==
    /\ tracker = 0
    /\ bdAvailable \in BOOLEAN
    /\ detected \in AgentLists
    /\ round = 1
    /\ convDetector = NewDetector
    /\ planOutcome = "none"
    /\ roundCalls = 0
    /\ prevEndSnap = EmptyString
    /\ i = 1
    /\ retErr = Nil
    /\ sessions = <<>>
    /\ beadsBefore = EmptyString
    /\ events = <<>>
    /\ calls = {}
    /\ sendLog = <<>>
    /\ changedInRound = FALSE
    /\ (InitDirect \/ InitPlan)

\* no planning run and no round: the orchestrator's variables at rest
IdleOrchestrator ==
    /\ tracker = 0
    /\ bdAvailable = TRUE
    /\ entry = "none"
    /\ orch = [sessionMgr |-> FALSE, contextBuilder |-> FALSE,
               progressReporter |-> FALSE]
    /\ flags = DefaultFlags
    /\ detected = <<>>
    /\ planPc = "idle"
    /\ planCtx = DirectContext
    /\ round = 1
    /\ convDetector = NewDetector
    /\ planOutcome = "none"
    /\ roundCalls = 0
    /\ prevEndSnap = EmptyString
    /\ rpc = "idle"
    /\ agents = <<>>
    /\ rctx = DirectContext
    /\ i = 1
    /\ result = NewRoundResult(DirectContext)
    /\ retErr = Nil
    /\ sessions = <<>>
    /\ beadsBefore = EmptyString
    /\ events = <<>>
    /\ calls = {}
    /\ sendLog = <<>>
    /\ changedInRound = FALSE

\* no Dispatch call: the dispatcher's variables at rest
IdleDispatch ==
    /\ dSessions = <<>>
    /\ dNil = FALSE
    /\ dKind = "none"
    /\ dCtx = "active"
    /\ dpc = "idle"
    /\ spawned = 0
    /\ wg = 0
    /\ worker = <<>>
    /\ sendRet = <<>>
    /\ resultCh = <<>>
    /\ chClosed = FALSE
    /\ closer = "none"
    /\ dResults = <<>>
    /\ dRet = [returned |-> FALSE, isNil |-> TRUE, items |-> <<>>]
    /\ atCancel = {}

\* the output pipes of a child process
Pipes == {"stdout", "stderr"}

\* one readOutput goroutine per spawned process and pipe
Readers == (1..MaxStarts) \X Pipes

NoCall == [op |-> "none"]

\* the DefaultSession that DefaultManager.CreateSession returns: not started,
\* not alive, context usage 0, no process
NewSession ==
    /\ started = FALSE
    /\ alive = FALSE
    /\ contextUsage = 0
    /\ outputBuffer = <<>>
    /\ cmdProcess = "none"
    /\ pipeQ = [p \in Pipes |-> <<>>]
    /\ reader = [r \in Readers |-> [pc |-> "none", line |-> <<>>]]
    /\ sendPc = "idle"
    /\ lastOp = NoCall
    /\ life = "Created"
    /\ spawns = 0
    /\ kills = 0
    /\ written = 0
    /\ emitted = 0
    /\ pipeDead = FALSE

\* no call made on a detector
IdleDetector ==
    /\ detLast = NoCall
    /\ detHistory = <<>>

\* no RunOneShot call
IdleOneShot ==
    /\ shotPc = "idle"
    /\ shotAgent = [found |-> TRUE, parser |-> FALSE]
    /\ shotCtx = "active"
    /\ shotProc = "none"
    /\ shotCode = 0
    /\ outputBuf = <<>>
    /\ shotRet = [returned |-> FALSE]

\* no function called
IdleFn ==
    /\ fnName = "none"
    /\ fnArg = <<>>
    /\ fnRet = <<>>

Init ==
    /\ InitOrchestrator
    /\ IdleDispatch
    /\ NewSession
    /\ IdleDetector
    /\ IdleOneShot
    /\ IdleFn

Next ==
    \/ SkipAgent
    \/ BeginTurn
    \/ NoSessionManager
    \/ CreateSessionOk
    \/ CreateSessionFail
    \/ StartOk
    \/ StartFail
    \/ SendOk
    \/ SendFail
    \/ EndLoop
    \/ RunDeferredClose
    \/ ReturnRound
    \/ \E k \in DOMAIN sessions : AgentChangesTracker(k)
    \/ RunPlanSetup
    \/ PlanRound
    \/ PlanAfterRound

Spec == Init /\ [][Next]_vars

(***************************************************************************)
(* Properties of RunRound and of the planning loop, checked under Spec.    *)
(***************************************************************************)
\* the tracker version a snapshot was read at
Version(snapshot) == snapshot[2]

OpenSessions == {k \in DOMAIN sessions : sessions[k].state = "started"}

\* C1: the prompt sent to every agent after the first reflects every tracker
\* change made so far by the agents that ran before it in the same round: the
\* snapshot it is rendered from is the tracker's state when the prompt is sent.
C1_PromptReflectsPredecessors ==
    \A k \in DOMAIN sendLog :
        (bdAvailable /\ sendLog[k].idx > 1 /\ sendLog[k].prompt.kind = "formatted")
            => sendLog[k].prompt.beads = BdList(sendLog[k].tracker)

\* C2: at no point during a round are two of its sessions open at once.
C2_OneOpenSession == Cardinality(OpenSessions) <= 1

\* C3: the first prompt of round N+1 is rendered from a snapshot that is not
\* older than the one the final refresh of round N read.
C3_NextRoundStartsFromPostRoundSnapshot ==
    (entry = "runPlan" /\ bdAvailable /\ planPc = "round" /\ round > 1
        /\ sendLog # <<>>)
        => Version(sendLog[1].prompt.beads) >= Version(prevEndSnap)

\* C4: convergence is never declared after a round in which an agent changed
\* the tracker.
C4_ConvergedOnlyAfterQuietRound ==
    planOutcome = "converged" => ~changedInRound

\* C5: RunRound returns exactly one AgentResult per input agent, in input
\* order, whatever turns were skipped, failed or successful; an empty agent
\* list yields no results and TotalChanges 0.
C5_OneResultPerAgentInOrder ==
    rpc = "returned" =>
        /\ Len(result.AgentResults) = Len(agents)
        /\ \A k \in DOMAIN agents : result.AgentResults[k].Agent = agents[k]
        /\ (Len(agents) = 0 => result.TotalChanges = 0)

C5_Witness ==
    /\ rpc = "returned"
    /\ Len(agents) >= 2
    /\ \E j, k \in DOMAIN agents :
          /\ result.AgentResults[j].Error # Nil
          /\ result.AgentResults[k].Error = Nil
          /\ <<k, "Send">> \in calls

\* C6: RunRound never returns an error because an agent failed: a failed
\* CreateSession, Start or Send is recorded in that agent's Error and counted
\* in FailedCount, and every later agent still takes its turn.
C6_FailuresStayInsideResult ==
    rpc \in {"defers", "returned"} =>
        /\ retErr = Nil
        /\ Len(result.AgentResults) = Len(agents)
        /\ result.FailedCount =
              Cardinality({k \in DOMAIN result.AgentResults :
                              result.AgentResults[k].Error # Nil})
        /\ \A k \in DOMAIN agents :
              /\ (agents[k].Authenticated /\ orch.sessionMgr)
                    => <<k, "CreateSession">> \in calls
              /\ (<<k, "CreateSession">> \in calls /\ <<k, "Send">> \notin calls)
                    => result.AgentResults[k].Error # Nil

C6_Witness ==
    /\ rpc = "returned"
    /\ \E k \in DOMAIN agents :
          /\ k < Len(agents)
          /\ result.AgentResults[k].Error # Nil
          /\ <<k, "CreateSession">> \in calls
          /\ <<k + 1, "Send">> \in calls
          /\ result.AgentResults[k + 1].Error = Nil

\* C7: every unauthenticated agent gets a result with Skipped set and no
\* Error, counts once in SkippedCount, has no CreateSession, Start or Send made
\* for it, and the round goes on to the next agent.
C7_UnauthenticatedAgentsSkipped ==
    /\ \A k \in DOMAIN agents :
          ~agents[k].Authenticated =>
              /\ \A op \in {"CreateSession", "Start", "Send"} : <<k, op>> \notin calls
              /\ k <= Len(result.AgentResults) =>
                    /\ result.AgentResults[k].Skipped
                    /\ result.AgentResults[k].Error = Nil
    /\ result.SkippedCount =
          Cardinality({k \in DOMAIN result.AgentResults : ~agents[k].Authenticated})
    /\ rpc = "returned" => Len(result.AgentResults) = Len(agents)

C7_Witness ==
    /\ rpc = "returned"
    /\ \E k \in DOMAIN agents :
          /\ k < Len(agents)
          /\ ~agents[k].Authenticated
          /\ result.AgentResults[k].Skipped
          /\ <<k + 1, "Send">> \in calls

\* C24: in a planning run of several rounds an agent's session persists from
\* one round to the next: when a round that another round follows has
\* returned, every session that was handed its agent's prompt in it is still
\* running, ready for the next round's prompt.
C24_SessionPersistsAcrossRounds ==
    (/\ entry = "runPlan"
     /\ planPc = "round"
     /\ rpc = "returned"
     /\ retErr = Nil
     /\ ~flags.untilConverged
     /\ round < flags.rounds) =>
        \A k \in DOMAIN sessions :
            sessions[k].prompted => ProcessAlive(k)

\* the sum of len(BeadsChanged) over the first n agent results
RECURSIVE ChangesIn(_, _)
ChangesIn(ars, n) ==
    IF n = 0 THEN 0 ELSE Len(ars[n].BeadsChanged) + ChangesIn(ars, n - 1)

\* C36: in the RoundResult RunRound returns every AgentResult is exactly one
\* of skipped (Skipped set, no Error), failed (an Error, Skipped not set) and
\* successful (neither); SkippedCount is the number of skipped results,
\* FailedCount the number of failed ones and TotalChanges the sum of
\* len(BeadsChanged) over all results.
C36_ResultsClassifiedAndCounted ==
    rpc = "returned" =>
        LET ars == result.AgentResults
            skipped == {k \in DOMAIN ars : ars[k].Skipped /\ ars[k].Error = Nil}
            failed == {k \in DOMAIN ars : ars[k].Error # Nil /\ ~ars[k].Skipped}
            successful == {k \in DOMAIN ars : ~ars[k].Skipped /\ ars[k].Error = Nil}
        IN  /\ skipped \cup failed \cup successful = DOMAIN ars
            /\ result.SkippedCount = Cardinality(skipped)
            /\ result.FailedCount = Cardinality(failed)
            /\ result.TotalChanges = ChangesIn(ars, Len(ars))

C36_Witness ==
    /\ rpc = "returned"
    /\ Len(result.AgentResults) = 2
    /\ result.AgentResults[1].Skipped
    /\ result.AgentResults[2].Error # Nil
    /\ result.SkippedCount = 1
    /\ result.FailedCount = 1

\* C37: every session RunRound creates is closed exactly once by the time
\* RunRound returns, whether its Start failed, its Send failed or its turn
\* succeeded; no session is closed twice, and none is open after the return.
C37_SessionsClosedExactlyOnce ==
    /\ \A k \in DOMAIN sessions : sessions[k].closes <= 1
    /\ rpc = "returned" =>
          \A k \in DOMAIN sessions :
             /\ sessions[k].closes = 1
             /\ sessions[k].state = "closed"

C37_Witness ==
    /\ rpc = "returned"
    /\ Len(sessions) = 2
    /\ <<1, "Start">> \in calls
    /\ <<1, "Send">> \notin calls
    /\ <<2, "Send">> \in calls
    /\ \A k \in DOMAIN sessions : sessions[k].closes = 1

\* the positions in events of the reporter's calls of one kind for agent a
EventsOf(kind, a) ==
    {k \in DOMAIN events : events[k].kind = kind /\ events[k].idx = a}

\* C38: with a progress reporter set RunRound emits its events in agent
\* order: a skipped agent gets exactly one OnAgentComplete and no
\* OnAgentStart; every other agent gets exactly one OnAgentStart, before any
\* Send to it, then exactly one OnAgentComplete carrying the result appended
\* for it; all events of one agent precede all events of the next.
C38_EventsInAgentOrder ==
    (orch.progressReporter /\ rpc # "idle") =>
        /\ \A j, k \in DOMAIN events : j < k => events[j].idx <= events[k].idx
        /\ \A a \in DOMAIN agents :
              /\ <<a, "Send">> \in calls => EventsOf("start", a) # {}
              /\ a > i => EventsOf("start", a) \cup EventsOf("complete", a) = {}
              /\ (a = i /\ rpc # "loop") =>
                    /\ Cardinality(EventsOf("start", a)) = 1
                    /\ EventsOf("complete", a) = {}
              /\ a < i =>
                    /\ Cardinality(EventsOf("complete", a)) = 1
                    /\ \A k \in EventsOf("complete", a) :
                          /\ events[k].res = result.AgentResults[a]
                          /\ \A j \in EventsOf("start", a) : j < k
                    /\ IF ShouldSkip(agents[a])
                       THEN EventsOf("start", a) = {}
                       ELSE Cardinality(EventsOf("start", a)) = 1

C38_Witness ==
    /\ orch.progressReporter
    /\ rpc = "returned"
    /\ Len(agents) = 2
    /\ ShouldSkip(agents[1])
    /\ <<2, "Send">> \in calls
    /\ Len(events) = 3
    /\ events[3].res.Error = Nil

\* C28: in a planning run the k-th call of RunRound is made with Round = k,
\* so the round numbers go up from 1 one by one, and the planning context
\* handed over has IsFirstTurn set exactly when Round is 1.
C28_RoundNumbersCountCalls ==
    (entry = "runPlan" /\ planPc = "round") =>
        /\ roundCalls >= 1
        /\ rctx.Round = roundCalls
        /\ result.Round = roundCalls
        /\ rctx.IsFirstTurn <=> rctx.Round = 1

C28_Witness ==
    /\ entry = "runPlan"
    /\ planPc = "round"
    /\ rpc = "returned"
    /\ roundCalls = 2
    /\ rctx.Round = 2
    /\ ~rctx.IsFirstTurn

DispatchNames == <<"alpha", "mango", "zebra", "zulu">>

NoError == "nil"

\* the session lists tried: every order pattern of up to MaxSessions names,
\* equal names included, written with the first names of DispatchNames
SessionLists ==
    UNION {{l \in [1..n -> DOMAIN DispatchNames] :
               \A r \in DOMAIN DispatchNames :
                   (\E k \in 1..n : l[k] = r) => \A q \in 1..r : \E k \in 1..n : l[k] = q} :
           n \in 0..MaxSessions}

\* session.Session.Agent of session j
SessionAgent(j) == [Name |-> dSessions[j], Authenticated |-> TRUE]

\* DefaultSession.Send: writes the prompt and returns what is buffered; it
\* fails when the session is not started, not alive or the write fails, and
\* never looks at ctx
DefaultSessionSend(j, ok) ==
    IF ok
    THEN [Response |-> [Output |-> <<"response from", dSessions[j]>>, Error |-> NoError],
          Error |-> NoError]
    ELSE [Response |-> [Output |-> <<>>, Error |-> "failed to send prompt"],
          Error |-> "failed to send prompt"]

\* the tests' mockSession.Send: selects on ctx.Done while it waits
MockSessionSend(j, ok) ==
    IF dCtx # "active"
    THEN [Response |-> [Output |-> <<>>, Error |-> NoError], Error |-> dCtx]
    ELSE IF ok
    THEN [Response |-> [Output |-> <<"response from", dSessions[j]>>, Error |-> NoError],
          Error |-> NoError]
    ELSE [Response |-> [Output |-> <<>>, Error |-> NoError], Error |-> "agent failed"]

\* no Send has returned yet
NotSent == [Response |-> [Output |-> <<>>, Error |-> NoError], Error |-> "no Send yet"]

SessionSend(j, ok) ==
    IF dKind = "DefaultSession" THEN DefaultSessionSend(j, ok) ELSE MockSessionSend(j, ok)

\* mutant: every worker closure reads the loop's session variable, which has
\* moved on to the last session by the time the worker runs
WorkerResult_LoopVariable(j, ret) ==
    [Agent |-> SessionAgent(Len(dSessions)), Response |-> ret.Response,
     Error |-> ret.Error, sess |-> j]

\* the Result a worker builds for session j; sess records which worker built it
WorkerResult(j, ret) ==
    [Agent |-> SessionAgent(j), Response |-> ret.Response, Error |-> ret.Error,
     sess |-> j]

Arrangements(n) == {p \in [1..n -> 1..n] : \A a, b \in 1..n : a # b => p[a] # p[b]}

IsSortedByName(rs) ==
    \A a, b \in DOMAIN rs : a < b => ~(rs[b].Agent.Name < rs[a].Agent.Name)

\* mutant: the results are returned in the order they were collected
SortByName_Unsorted(rs) == {rs}

\* sort.Slice by Agent.Name: not stable, so any sorted arrangement may result
SortByName(rs) ==
    {[k \in DOMAIN rs |-> rs[p[k]]] : p \in
        {q \in Arrangements(Len(rs)) : IsSortedByName([k \in DOMAIN rs |-> rs[q[k]]])}}

NotReturned == [returned |-> FALSE, isNil |-> TRUE, items |-> <<>>]

\* len(sessions) == 0: return []Result{}
DispatchEmpty ==
    /\ dpc = "start"
    /\ Len(dSessions) = 0
    /\ dRet' = [returned |-> TRUE, isNil |-> FALSE, items |-> <<>>]
    /\ dpc' = "returned"
    /\ UNCHANGED <<libVars, sessVars, orchVars, dSessions, dNil, dKind, dCtx, spawned, wg, worker, sendRet,
                   resultCh, chClosed, closer, dResults, atCancel>>

\* make(chan Result, len(sessions)) and the WaitGroup
DispatchBegin ==
    /\ dpc = "start"
    /\ Len(dSessions) > 0
    /\ dpc' = "fanout"
    /\ UNCHANGED <<libVars, sessVars, orchVars, dSessions, dNil, dKind, dCtx, spawned, wg, worker, sendRet,
                   resultCh, chClosed, closer, dResults, dRet, atCancel>>

\* mutant: the loop calls each session in turn and goes on when it is done
SpawnWorker_Sequential ==
    /\ dpc = "fanout"
    /\ spawned < Len(dSessions)
    /\ \A j \in 1..spawned : worker[j] = "done"
    /\ spawned' = spawned + 1
    /\ wg' = wg + 1
    /\ worker' = [worker EXCEPT ![spawned + 1] = "spawned"]
    /\ UNCHANGED <<libVars, sessVars, orchVars, dSessions, dNil, dKind, dCtx, dpc, sendRet, resultCh,
                   chClosed, closer, dResults, dRet, atCancel>>

\* one iteration of the fan-out loop: wg.Add(1); go func(s) {...}(sess)
SpawnWorker ==
    /\ dpc = "fanout"
    /\ spawned < Len(dSessions)
    /\ spawned' = spawned + 1
    /\ wg' = wg + 1
    /\ worker' = [worker EXCEPT ![spawned + 1] = "spawned"]
    /\ UNCHANGED <<libVars, sessVars, orchVars, dSessions, dNil, dKind, dCtx, dpc, sendRet, resultCh,
                   chClosed, closer, dResults, dRet, atCancel>>

\* after the loop: go func() { wg.Wait(); close(resultCh) }()
SpawnCloser ==
    /\ dpc = "fanout"
    /\ spawned = Len(dSessions)
    /\ closer' = "waiting"
    /\ dpc' = "collect"
    /\ UNCHANGED <<libVars, sessVars, orchVars, dSessions, dNil, dKind, dCtx, spawned, wg, worker, sendRet,
                   resultCh, chClosed, dResults, dRet, atCancel>>

\* a worker calls s.Send(ctx, prompt)
WorkerCallsSend(j) ==
    /\ worker[j] = "spawned"
    /\ worker' = [worker EXCEPT ![j] = "sending"]
    /\ UNCHANGED <<libVars, sessVars, orchVars, dSessions, dNil, dKind, dCtx, dpc, spawned, wg, sendRet,
                   resultCh, chClosed, closer, dResults, dRet, atCancel>>

\* the Send returns
WorkerSendReturns(j) ==
    /\ worker[j] = "sending"
    /\ \E ok \in BOOLEAN : sendRet' = [sendRet EXCEPT ![j] = SessionSend(j, ok)]
    /\ worker' = [worker EXCEPT ![j] = "sent"]
    /\ UNCHANGED <<libVars, sessVars, orchVars, dSessions, dNil, dKind, dCtx, dpc, spawned, wg, resultCh,
                   chClosed, closer, dResults, dRet, atCancel>>

\* resultCh <- result; the channel's buffer holds len(sessions) results
WorkerDelivers(j) ==
    /\ worker[j] = "sent"
    /\ ~chClosed
    /\ Len(resultCh) < Len(dSessions)
    /\ resultCh' = Append(resultCh, WorkerResult(j, sendRet[j]))
    /\ worker' = [worker EXCEPT ![j] = "delivered"]
    /\ UNCHANGED <<libVars, sessVars, orchVars, dSessions, dNil, dKind, dCtx, dpc, spawned, wg, sendRet,
                   chClosed, closer, dResults, dRet, atCancel>>

\* the deferred wg.Done()
WorkerDone(j) ==
    /\ worker[j] = "delivered"
    /\ wg' = wg - 1
    /\ worker' = [worker EXCEPT ![j] = "done"]
    /\ UNCHANGED <<libVars, sessVars, orchVars, dSessions, dNil, dKind, dCtx, dpc, spawned, sendRet, resultCh,
                   chClosed, closer, dResults, dRet, atCancel>>

\* mutant: the closer closes the channel without waiting for the workers
CloserCloses_NoWait ==
    /\ closer = "waiting"
    /\ chClosed' = TRUE
    /\ closer' = "done"
    /\ UNCHANGED <<libVars, sessVars, orchVars, dSessions, dNil, dKind, dCtx, dpc, spawned, wg, worker,
                   sendRet, resultCh, dResults, dRet, atCancel>>

\* wg.Wait() returns; close(resultCh)
CloserCloses ==
    /\ closer = "waiting"
    /\ wg = 0
    /\ chClosed' = TRUE
    /\ closer' = "done"
    /\ UNCHANGED <<libVars, sessVars, orchVars, dSessions, dNil, dKind, dCtx, dpc, spawned, wg, worker,
                   sendRet, resultCh, dResults, dRet, atCancel>>

\* for result := range resultCh: one receive
CollectOne ==
    /\ dpc = "collect"
    /\ Len(resultCh) > 0
    /\ dResults' = Append(dResults, Head(resultCh))
    /\ resultCh' = Tail(resultCh)
    /\ UNCHANGED <<libVars, sessVars, orchVars, dSessions, dNil, dKind, dCtx, dpc, spawned, wg, worker,
                   sendRet, chClosed, closer, dRet, atCancel>>

\* the range ends on the closed, drained channel; sort and return
DispatchReturn ==
    /\ dpc = "collect"
    /\ Len(resultCh) = 0
    /\ chClosed
    /\ \E sorted \in SortByName(dResults) :
          dRet' = [returned |-> TRUE, isNil |-> FALSE, items |-> sorted]
    /\ dpc' = "returned"
    /\ UNCHANGED <<libVars, sessVars, orchVars, dSessions, dNil, dKind, dCtx, spawned, wg, worker, sendRet,
                   resultCh, chClosed, closer, dResults, atCancel>>

\* the caller cancels ctx, or its deadline fires, while Dispatch runs
ContextEnds ==
    /\ dCtx = "active"
    /\ dpc # "returned"
    /\ dCtx' \in {"context canceled", "context deadline exceeded"}
    /\ atCancel' = {j \in DOMAIN dSessions : worker[j] = "sending"}
    /\ UNCHANGED <<libVars, sessVars, orchVars, dSessions, dNil, dKind, dpc, spawned, wg, worker, sendRet,
                   resultCh, chClosed, closer, dResults, dRet>>

InitDispatch ==
    /\ dSessions \in SessionLists
    /\ dNil \in (IF Len(dSessions) = 0 THEN BOOLEAN ELSE {FALSE})
    /\ dKind \in {"DefaultSession", "mockSession"}
    /\ dCtx = "active"
    /\ dpc = "start"
    /\ spawned = 0
    /\ wg = 0
    /\ worker = [j \in DOMAIN dSessions |-> "none"]
    /\ sendRet = [j \in DOMAIN dSessions |-> NotSent]
    /\ resultCh = <<>>
    /\ chClosed = FALSE
    /\ closer = "none"
    /\ dResults = <<>>
    /\ dRet = NotReturned
    /\ atCancel = {}

NextDispatch ==
    \/ DispatchEmpty
    \/ DispatchBegin
    \/ SpawnWorker
    \/ SpawnCloser
    \/ \E j \in DOMAIN dSessions : WorkerCallsSend(j)
    \/ \E j \in DOMAIN dSessions : WorkerSendReturns(j)
    \/ \E j \in DOMAIN dSessions : WorkerDelivers(j)
    \/ \E j \in DOMAIN dSessions : WorkerDone(j)
    \/ CloserCloses
    \/ CollectOne
    \/ DispatchReturn
    \/ ContextEnds

DispatchInit ==
    /\ IdleOrchestrator
    /\ InitDispatch
    /\ NewSession
    /\ IdleDetector
    /\ IdleOneShot
    /\ IdleFn

SpecDispatch == DispatchInit /\ [][NextDispatch]_vars

(***************************************************************************)
(* Scheduling.  The Go scheduler runs every goroutine that can take a      *)
(* step, so each step of Dispatch, of its workers and of the closer is     *)
(* weakly fair.  A Send returns when its Session lets it: mockSession.Send *)
(* returns when its delay has passed or ctx is done, whichever is first;   *)
(* DefaultSession.Send returns when its write of the prompt to the child's *)
(* standard input completes, which nothing bounds.                         *)
(***************************************************************************)
SendMustReturn(j) ==
    /\ j \in DOMAIN dSessions
    /\ dKind = "mockSession"
    /\ WorkerSendReturns(j)

DispatchFairness ==
    /\ WF_vars(DispatchEmpty)
    /\ WF_vars(DispatchBegin)
    /\ WF_vars(SpawnWorker)
    /\ WF_vars(SpawnCloser)
    /\ WF_vars(CloserCloses)
    /\ WF_vars(CollectOne)
    /\ WF_vars(DispatchReturn)
    /\ \A j \in 1..MaxSessions :
          /\ WF_vars(j \in DOMAIN dSessions /\ WorkerCallsSend(j))
          /\ WF_vars(SendMustReturn(j))
          /\ WF_vars(j \in DOMAIN dSessions /\ WorkerDelivers(j))
          /\ WF_vars(j \in DOMAIN dSessions /\ WorkerDone(j))

SpecDispatchLive == DispatchInit /\ [][NextDispatch]_vars /\ DispatchFairness

(***************************************************************************)
(* Properties of Dispatch, checked under SpecDispatch.                     *)
(***************************************************************************)
CancellationErrors == {"context canceled", "context deadline exceeded"}

\* the returned Results that worker j built
ResultsOf(j) == {k \in DOMAIN dRet.items : dRet.items[k].sess = j}

\* C8: Dispatch returns exactly one Result per input session, carrying that
\* session's Agent and the Response and Error its one Send call returned,
\* whatever the interleaving and whatever the other sessions' Sends returned.
C8_OneResultPerSession ==
    dRet.returned =>
        /\ Len(dRet.items) = Len(dSessions)
        /\ \A j \in DOMAIN dSessions :
              /\ Cardinality(ResultsOf(j)) = 1
              /\ \A k \in ResultsOf(j) :
                    /\ dRet.items[k].Agent.Name = dSessions[j]
                    /\ dRet.items[k].Response = sendRet[j].Response
                    /\ dRet.items[k].Error = sendRet[j].Error
                    /\ sendRet[j] # NotSent

C8_Witness ==
    /\ dRet.returned
    /\ \E a, b \in DOMAIN dRet.items :
          /\ dRet.items[a].Error # NoError
          /\ dRet.items[b].Error = NoError
          /\ dRet.items[b].Response.Output = <<"response from", dSessions[dRet.items[b].sess]>>

\* C9: the returned slice is in ascending order of agent name, whatever the
\* order of the input sessions and of the Sends' completion; an empty or nil
\* session list yields an empty slice that is not nil.
C9_SortedByName ==
    dRet.returned =>
        /\ \A a, b \in DOMAIN dRet.items :
              a < b => dRet.items[a].Agent.Name <= dRet.items[b].Agent.Name
        /\ ~dRet.isNil
        /\ (Len(dSessions) = 0 => dRet.items = <<>>)

C9_Witness ==
    /\ dRet.returned
    /\ Len(dSessions) >= 2
    /\ dSessions[1] > dSessions[2]
    /\ dResults[1].sess = 1
    /\ dRet.items[1].sess = 2

\* C10: when the context ends while Sends are in flight, the Result of every
\* Send then in flight records the cancellation error, and Dispatch still
\* returns one Result per session.
C10_InFlightSendsRecordCancellation ==
    dRet.returned =>
        /\ Len(dRet.items) = Len(dSessions)
        /\ \A j \in atCancel :
              \A k \in ResultsOf(j) :
                  /\ dRet.items[k].Error = dCtx
                  /\ dRet.items[k].Error \in CancellationErrors

\* C11: once the context of a Dispatch call in flight has ended, the call
\* returns, whether or not a slow session's Send has returned.
C11_CancelledDispatchReturns == (dCtx # "active") ~> dRet.returned

\* the same for sessions whose Send honours the context
C11_WithMockSessions == (dCtx # "active" /\ dKind = "mockSession") ~> dRet.returned

\* every Send that Dispatch starts returns
EverySendReturns ==
    \A j \in 1..MaxSessions :
        WF_vars(j \in DOMAIN dSessions /\ WorkerSendReturns(j))

\* Dispatch on sessions of either kind whose Sends all return
SpecDispatchSendsReturn == SpecDispatchLive /\ EverySendReturns

\* C39: Dispatch terminates whenever every session's Send returns: a worker
\* that has its result can always deliver it, the collector returns only
\* after the last worker has delivered and finished, so that no Send started
\* by Dispatch is running when Dispatch has returned, and, every Send
\* returning, Dispatch returns.
C39_DispatchTerminates ==
    /\ [](\A j \in DOMAIN dSessions :
            worker[j] = "sent" => ENABLED WorkerDelivers(j))
    /\ [](dRet.returned =>
            /\ \A j \in DOMAIN dSessions : worker[j] = "done"
            /\ resultCh = <<>>)
    /\ <>dRet.returned

C39_Witness ==
    /\ dRet.returned
    /\ dKind = "DefaultSession"
    /\ Len(dSessions) = 2
    /\ Len(dRet.items) = 2
    /\ \A j \in DOMAIN dSessions : worker[j] = "done"

\* C12: Dispatch starts every session's Send without waiting for any other
\* session's Send to return: the fan-out loop can always spawn its next worker
\* and a spawned worker can always call Send, whatever the other workers are
\* doing, and no Send has to return before the last one is called.
C12_SendsStartWithoutWaiting ==
    /\ (dpc = "fanout" /\ spawned < Len(dSessions)) => ENABLED SpawnWorker
    /\ \A j \in DOMAIN dSessions : worker[j] = "spawned" => ENABLED WorkerCallsSend(j)

\* all N >= 2 Sends are in flight at once
C12_Witness ==
    /\ Len(dSessions) >= 2
    /\ \A j \in DOMAIN dSessions : worker[j] = "sending"

(***************************************************************************)
(* session.DefaultSession                                                  *)
(*                                                                         *)
(* One session, its child processes and its readOutput goroutines.  The    *)
(* caller makes one call at a time.  Start and Close hold the mutex from   *)
(* entry to return and are one step each; IsAlive and ContextUsage only    *)
(* read under the mutex and are what they return; Send gives the mutex up  *)
(* around its write and is three steps.  The child and the readers run at  *)
(* any time.  Context usage is kept in percent.                            *)
(***************************************************************************)
UsageReports == {15, 150}

\* the lines a child may write: plain text, or a usage report "<n>% used"
Lines == {<<"text">>} \cup {<<pct, "% used">> : pct \in UsageReports}

\* the percentage of a usage report, -1 for any other line
parseContextUsage(line) == IF Len(line) = 2 THEN line[1] ELSE -1

NoSuchResponse == [Output |-> <<>>, ContextUsage |-> 0, Error |-> Nil]

\* a call has returned err (and resp, for Send); from is the lifecycle state
\* it was made in and arg its argument
Returned(op, arg, err, resp) ==
    [op |-> op, from |-> life, arg |-> arg, err |-> err, resp |-> resp]

\* mutant: Start does not look for the file
AgentsFileFound_Unchecked(fileExists) == TRUE

\* os.Stat(agentsPath) returns no error
AgentsFileFound(fileExists) == fileExists

\* Start(ctx, agentsPath); fileExists: os.Stat(agentsPath) succeeds;
\* spawnOk: the pipes are created and cmd.Start succeeds
Start(fileExists, spawnOk) ==
    /\ sendPc = "idle"
    /\ IF started
       THEN /\ lastOp' = Returned("Start", fileExists, "session already started",
                                  NoSuchResponse)
            /\ UNCHANGED <<started, alive, cmdProcess, pipeQ, reader, life, spawns>>
       ELSE IF ~AgentsFileFound(fileExists)
       THEN /\ lastOp' = Returned("Start", fileExists, "AGENTS.md not found",
                                  NoSuchResponse)
            /\ UNCHANGED <<started, alive, cmdProcess, pipeQ, reader, life, spawns>>
       ELSE IF ~spawnOk
       THEN /\ lastOp' = Returned("Start", fileExists, "failed to start agent",
                                  NoSuchResponse)
            /\ UNCHANGED <<started, alive, cmdProcess, pipeQ, reader, life, spawns>>
       ELSE /\ cmdProcess' = "running"
            /\ spawns' = spawns + 1
            /\ pipeQ' = [p \in Pipes |-> <<>>]
            /\ alive' = TRUE
            /\ started' = TRUE
            /\ reader' = [r \in Readers |->
                            IF r[1] = spawns + 1
                            THEN [pc |-> "scan", line |-> <<>>]
                            ELSE reader[r]]
            /\ life' = "Started"
            /\ lastOp' = Returned("Start", fileExists, Nil, NoSuchResponse)
    /\ UNCHANGED <<libVars, orchVars, dispatchVars, pipeDead, contextUsage, outputBuffer, sendPc, kills,
                   written, emitted>>

\* mutant: Close does its work whether or not the session is started
Close_Unconditional ==
    /\ sendPc = "idle"
    /\ alive' = FALSE
    /\ pipeQ' = [p \in Pipes |-> <<>>]
    /\ cmdProcess' = "reaped"
    /\ kills' = kills + 1
    /\ started' = FALSE
    /\ life' = "Closed"
    /\ lastOp' = Returned("Close", Nil, Nil, NoSuchResponse)
    /\ UNCHANGED <<libVars, orchVars, dispatchVars, pipeDead, contextUsage, outputBuffer, reader, sendPc,
                   spawns, written, emitted>>

\* Close()
Close ==
    /\ sendPc = "idle"
    /\ IF ~started
       THEN UNCHANGED <<started, alive, cmdProcess, pipeQ, life, kills>>
       ELSE /\ alive' = FALSE
            /\ pipeQ' = [p \in Pipes |-> <<>>]
            /\ cmdProcess' = "reaped"
            /\ kills' = kills + 1
            /\ started' = FALSE
            /\ life' = "Closed"
    /\ lastOp' = Returned("Close", Nil, Nil, NoSuchResponse)
    /\ UNCHANGED <<libVars, orchVars, dispatchVars, pipeDead, contextUsage, outputBuffer, reader, sendPc,
                   spawns, written, emitted>>

\* mutant: Send leaves the buffer as it finds it
SendBegin_KeepsBuffer ==
    /\ sendPc = "idle"
    /\ written < MaxSends
    /\ IF ~started
       THEN /\ lastOp' = Returned("Send", Nil, "session not started", NoSuchResponse)
            /\ UNCHANGED sendPc
       ELSE IF ~alive
       THEN /\ lastOp' = Returned("Send", Nil, "session not alive", NoSuchResponse)
            /\ UNCHANGED sendPc
       ELSE /\ sendPc' = "write"
            /\ UNCHANGED lastOp
    /\ UNCHANGED <<libVars, orchVars, dispatchVars, pipeDead, started, alive, contextUsage, outputBuffer,
                   cmdProcess, pipeQ, reader, life, spawns, kills, written, emitted>>

\* mutant: Send clears the buffer before it checks the session
SendBegin_ResetFirst ==
    /\ sendPc = "idle"
    /\ written < MaxSends
    /\ outputBuffer' = <<>>
    /\ IF ~started
       THEN /\ lastOp' = Returned("Send", Nil, "session not started", NoSuchResponse)
            /\ UNCHANGED sendPc
       ELSE IF ~alive
       THEN /\ lastOp' = Returned("Send", Nil, "session not alive", NoSuchResponse)
            /\ UNCHANGED sendPc
       ELSE /\ sendPc' = "write"
            /\ UNCHANGED lastOp
    /\ UNCHANGED <<libVars, orchVars, dispatchVars, pipeDead, started, alive, contextUsage, cmdProcess, pipeQ,
                   reader, life, spawns, kills, written, emitted>>

\* Send, up to its first unlock: the checks and outputBuffer.Reset()
SendBegin ==
    /\ sendPc = "idle"
    /\ written < MaxSends
    /\ IF ~started
       THEN /\ lastOp' = Returned("Send", Nil, "session not started", NoSuchResponse)
            /\ UNCHANGED <<outputBuffer, sendPc>>
       ELSE IF ~alive
       THEN /\ lastOp' = Returned("Send", Nil, "session not alive", NoSuchResponse)
            /\ UNCHANGED <<outputBuffer, sendPc>>
       ELSE /\ outputBuffer' = <<>>
            /\ sendPc' = "write"
            /\ UNCHANGED lastOp
    /\ UNCHANGED <<libVars, orchVars, dispatchVars, pipeDead, started, alive, contextUsage, cmdProcess, pipeQ,
                   reader, life, spawns, kills, written, emitted>>

\* Send: fmt.Fprintln(s.stdin, prompt); the write fails when the child is gone
SendWrite ==
    /\ sendPc = "write"
    /\ IF cmdProcess = "running"
       THEN /\ written' = written + 1
            /\ sendPc' = "collect"
            /\ UNCHANGED <<alive, lastOp, pipeDead>>
       ELSE /\ alive' = FALSE
            /\ pipeDead' = TRUE
            /\ lastOp' = Returned("Send", Nil, "failed to send prompt",
                                  [NoSuchResponse EXCEPT !.Error = "failed to send prompt"])
            /\ sendPc' = "idle"
            /\ UNCHANGED written
    /\ UNCHANGED <<libVars, orchVars, dispatchVars, started, contextUsage, outputBuffer, cmdProcess,
                   pipeQ, reader, life, spawns, kills, emitted>>

\* Send: read the buffer and the usage, return the Response
SendReturn ==
    /\ sendPc = "collect"
    /\ lastOp' = Returned("Send", Nil, Nil,
                          [Output |-> outputBuffer, ContextUsage |-> contextUsage,
                           Error |-> Nil])
    /\ sendPc' = "idle"
    /\ UNCHANGED <<libVars, orchVars, dispatchVars, pipeDead, started, alive, contextUsage, outputBuffer,
                   cmdProcess, pipeQ, reader, life, spawns, kills, written, emitted>>

\* mutant: IsAlive only asks whether a process was ever spawned
IsAlive_ProcessOnly == cmdProcess # "none"

\* IsAlive()
IsAlive ==
    IF ~started THEN FALSE
    ELSE IF ~alive THEN FALSE
    ELSE cmdProcess # "none"

\* ContextUsage()
ContextUsage == contextUsage

\* the read end of reader r's pipe is open: r reads the current process's pipe
\* and Close has not closed it
PipeOpen(r) == r[1] = spawns /\ started

\* the child writes a line to one of its output pipes
ProcessWrites(p, line) ==
    /\ cmdProcess = "running"
    /\ emitted < MaxLines
    /\ pipeQ' = [pipeQ EXCEPT ![p] = Append(@, line)]
    /\ emitted' = emitted + 1
    /\ UNCHANGED <<libVars, orchVars, dispatchVars, pipeDead, started, alive, contextUsage, outputBuffer,
                   cmdProcess, reader, sendPc, lastOp, life, spawns, kills, written>>

\* the child exits by itself
ProcessExits ==
    /\ cmdProcess = "running"
    /\ cmdProcess' = "exited"
    /\ UNCHANGED <<libVars, orchVars, dispatchVars, pipeDead, started, alive, contextUsage, outputBuffer,
                   pipeQ, reader, sendPc, lastOp, life, spawns, kills, written, emitted>>

\* readOutput: scanner.Scan() returns true; line := scanner.Text()
ReaderScans(r) ==
    /\ reader[r].pc = "scan"
    /\ PipeOpen(r)
    /\ pipeQ[r[2]] # <<>>
    /\ reader' = [reader EXCEPT ![r] = [pc |-> "line", line |-> Head(pipeQ[r[2]])]]
    /\ pipeQ' = [pipeQ EXCEPT ![r[2]] = Tail(@)]
    /\ UNCHANGED <<libVars, orchVars, dispatchVars, pipeDead, started, alive, contextUsage, outputBuffer,
                   cmdProcess, sendPc, lastOp, life, spawns, kills, written, emitted>>

\* readOutput: under the mutex, append the line and take over its usage report
ReaderAppends(r) ==
    /\ reader[r].pc = "line"
    /\ outputBuffer' = Append(outputBuffer, reader[r].line)
    /\ contextUsage' = IF parseContextUsage(reader[r].line) >= 0
                       THEN parseContextUsage(reader[r].line)
                       ELSE contextUsage
    /\ reader' = [reader EXCEPT ![r] = [pc |-> "scan", line |-> <<>>]]
    /\ UNCHANGED <<libVars, orchVars, dispatchVars, pipeDead, started, alive, cmdProcess, pipeQ, sendPc,
                   lastOp, life, spawns, kills, written, emitted>>

\* readOutput: scanner.Scan() returns false, at end of file or on a closed pipe,
\* and the goroutine returns; nothing of the session changes with it, so it is
\* not a step of its own: a reader is over when it can read nothing more
ReaderEnded(r) ==
    /\ reader[r].pc = "scan"
    /\ \/ ~PipeOpen(r)
       \/ cmdProcess # "running" /\ pipeQ[r[2]] = <<>>

NextSession ==
    \/ \E fileExists, spawnOk \in BOOLEAN :
          /\ spawnOk => spawns < MaxStarts
          /\ Start(fileExists, spawnOk)
    \/ Close
    \/ SendBegin
    \/ SendWrite
    \/ SendReturn
    \/ \E p \in Pipes, line \in Lines : ProcessWrites(p, line)
    \/ ProcessExits
    \/ \E r \in Readers : ReaderScans(r)
    \/ \E r \in Readers : ReaderAppends(r)

SessionInit ==
    /\ IdleOrchestrator
    /\ IdleDispatch
    /\ NewSession
    /\ IdleDetector
    /\ IdleOneShot
    /\ IdleFn

SpecSession == SessionInit /\ [][NextSession]_vars

(***************************************************************************)
(* Properties of DefaultSession, checked under SpecSession.                *)
(***************************************************************************)
\* this step is a call of Close that returns
CloseReturns == lastOp'.op = "Close" /\ lastOp' # lastOp

\* this step is the first step of a call of Send
SendCalled ==
    /\ sendPc = "idle"
    /\ \/ sendPc' = "write"
       \/ lastOp'.op = "Send" /\ lastOp' # lastOp

\* C13: Close is idempotent: a Close on a session that has been closed returns
\* success and changes nothing, and no process is killed and reaped twice.
C13_CloseIdempotent ==
    [][/\ (life = "Closed" /\ CloseReturns) =>
              /\ lastOp'.err = Nil
              /\ UNCHANGED <<started, alive, contextUsage, outputBuffer, cmdProcess,
                             pipeQ, reader, life, spawns, kills, written>>
       /\ kills' <= spawns']_vars

C13_Witness ==
    /\ lastOp.op = "Close"
    /\ lastOp.from = "Closed"
    /\ lastOp.err = Nil
    /\ spawns = 1
    /\ kills = 1

\* C14: after Close has returned nothing more is appended to the output
\* buffer and the context usage no longer changes.
C14_NoOutputAfterClose ==
    [][(life = "Closed" /\ life' = "Closed") =>
          /\ outputBuffer' = outputBuffer
          /\ contextUsage' = contextUsage]_vars

\* C15: Start succeeds only from state Created: on a Started session it fails
\* with "session already started", on a Closed session it fails as well, and
\* no second process is ever spawned.
C15_StartOnlyFromCreated ==
    /\ (lastOp.op = "Start" /\ lastOp.from = "Started")
          => lastOp.err = "session already started"
    /\ (lastOp.op = "Start" /\ lastOp.from = "Closed") => lastOp.err # Nil
    /\ spawns <= 1

\* C16: Start on a Created session with a missing agents file fails with
\* "AGENTS.md not found", spawns no process and leaves the session Created:
\* IsAlive is false, and a Send on a Created session fails as not started.
C16_MissingAgentsFile ==
    /\ (lastOp.op = "Start" /\ lastOp.from = "Created" /\ ~lastOp.arg) =>
          /\ lastOp.err = "AGENTS.md not found"
          /\ life = "Created"
          /\ ~started
          /\ ~IsAlive
          /\ cmdProcess = "none"
          /\ spawns = 0
    /\ (lastOp.op = "Send" /\ lastOp.from = "Created") =>
          lastOp.err = "session not started"

C16_Witness ==
    /\ lastOp.op = "Start"
    /\ lastOp.from = "Created"
    /\ ~lastOp.arg
    /\ lastOp.err = "AGENTS.md not found"

\* C17: a Send on a session that is not Started returns an error at once,
\* writes nothing to the child and leaves the output buffer and the context
\* usage as they are.
C17_SendOnNotStarted ==
    [][(life # "Started" /\ SendCalled) =>
          /\ sendPc' = "idle"
          /\ lastOp'.op = "Send"
          /\ lastOp'.err # Nil
          /\ written' = written
          /\ outputBuffer' = outputBuffer
          /\ contextUsage' = contextUsage]_vars

C17_Witness ==
    /\ lastOp.op = "Send"
    /\ lastOp.from = "Closed"
    /\ lastOp.err = "session not started"
    /\ outputBuffer # <<>>
    /\ contextUsage > 0

\* C18: once a Send has failed writing to a dead pipe the session is not
\* alive: from then on IsAlive is false and every Send fails without writing.
C18_DeadAfterFailedWrite ==
    pipeDead =>
        /\ ~IsAlive
        /\ sendPc = "idle"
        /\ lastOp.op = "Send" => lastOp.err # Nil

\* C19: once the child process has exited by itself, IsAlive is false.
C19_ExitedProcessIsDead == cmdProcess = "exited" => ~IsAlive

\* C20: the context usage never goes down while the session is alive.
C20_ContextUsageMonotonic ==
    [][(alive /\ alive') => ContextUsage' >= ContextUsage]_vars

\* C21: the context usage is clamped to [0.0, 1.0], that is 0 to 100 percent,
\* in every reachable state, in the session and in every Response, whatever
\* percentage the child's lines carry.
C21_ContextUsageClamped ==
    /\ 0 <= ContextUsage
    /\ ContextUsage <= 100
    /\ lastOp.op = "Send" =>
          /\ 0 <= lastOp.resp.ContextUsage
          /\ lastOp.resp.ContextUsage <= 100

\* C22: IsAlive follows the lifecycle: false before Start, true after a
\* successful Start, false after Close.
C22_IsAliveFollowsLifecycle ==
    /\ life = "Created" => ~IsAlive
    /\ (lastOp.op = "Start" /\ lastOp.err = Nil) => IsAlive
    /\ life = "Closed" => ~IsAlive
    /\ lastOp.op = "Close" => ~IsAlive

C22_Witness ==
    /\ lastOp.op = "Close"
    /\ lastOp.from = "Started"
    /\ life = "Closed"
    /\ ~IsAlive

\* C23: on a started session every Send that returns without error returns a
\* Response whose Output is not empty: it holds the agent's reply.
C23_SendReturnsReply ==
    (lastOp.op = "Send" /\ lastOp.err = Nil) => lastOp.resp.Output # <<>>

ThresholdArgs == {-5, 0, 1, 2}

\* the values of RoundResult.TotalChanges tried
ChangeCounts == {0, 1}

\* the agent results tried: a skipped and a failed agent, each with changed
\* beads in its result, and an agent that ran, with and without changed beads
AgentResultKinds ==
    LET ar == NewAgentResult([Name |-> AgentNames[1], Authenticated |-> TRUE])
        changed == <<"buckshot-xyz">>
    IN  {[ar EXCEPT !.Skipped = TRUE, !.BeadsChanged = changed],
         [ar EXCEPT !.Error = "agent failed", !.BeadsChanged = changed],
         ar,
         [ar EXCEPT !.BeadsChanged = changed]}

RoundResults ==
    UNION {{[NewRoundResult(DirectContext) EXCEPT !.AgentResults = ars,
                                                   !.TotalChanges = tc] :
              ars \in [1..n -> AgentResultKinds], tc \in ChangeCounts} :
           n \in 0..MaxAgents}

Reset(d) == [d EXCEPT !.consecutiveNoChange = 0]

ConsecutiveNoChangeRounds(d) == d.consecutiveNoChange

\* mutant: the threshold is stored as given
SetThreshold_Unclamped(d, n) == [d EXCEPT !.threshold = n]

SetThreshold(d, n) == [d EXCEPT !.threshold = IF n < 1 THEN 1 ELSE n]

DetectorIsConverged(res) ==
    /\ detLast' = [op |-> "IsConverged", arg |-> res, ret |-> IsConverged(res)]
    /\ UNCHANGED <<orchVars, dispatchVars, sessVars, shotVars, fnVars, detHistory>>

DetectorCheckConvergence(res) ==
    /\ Len(detHistory) < MaxChecks
    /\ convDetector' = CheckConvergence(convDetector, res)
    /\ detLast' = [op |-> "CheckConvergence", arg |-> IsConverged(res),
                   ret |-> CheckConvergenceResult(convDetector')]
    /\ detHistory' = Append(detHistory,
                            IF IsConverged(res) THEN "converged" ELSE "changed")
    /\ UNCHANGED <<dispatchVars, sessVars, shotVars, fnVars, tracker, cfgVars, roundVars,
                   planPc, planCtx, round, planOutcome, roundCalls, prevEndSnap>>

DetectorReset ==
    /\ Len(detHistory) < MaxChecks
    /\ convDetector' = Reset(convDetector)
    /\ detLast' = [op |-> "Reset", arg |-> Nil, ret |-> Nil]
    /\ detHistory' = Append(detHistory, "reset")
    /\ UNCHANGED <<dispatchVars, sessVars, shotVars, fnVars, tracker, cfgVars, roundVars,
                   planPc, planCtx, round, planOutcome, roundCalls, prevEndSnap>>

DetectorSetThreshold(n) ==
    /\ convDetector' = SetThreshold(convDetector, n)
    /\ detLast' = [op |-> "SetThreshold", arg |-> n, ret |-> Nil]
    /\ UNCHANGED <<dispatchVars, sessVars, shotVars, fnVars, tracker, cfgVars, roundVars,
                   planPc, planCtx, round, planOutcome, roundCalls, prevEndSnap, detHistory>>

NextConvergence ==
    \/ \E res \in RoundResults : DetectorIsConverged(res)
    \/ \E res \in RoundResults : DetectorCheckConvergence(res)
    \/ DetectorReset
    \/ \E n \in ThresholdArgs : DetectorSetThreshold(n)

ConvergenceInit ==
    /\ IdleOrchestrator
    /\ IdleDispatch
    /\ NewSession
    /\ IdleDetector
    /\ IdleOneShot
    /\ IdleFn

SpecConvergence == ConvergenceInit /\ [][NextConvergence]_vars

(***************************************************************************)
(* Properties of the detector, checked under SpecConvergence.              *)
(***************************************************************************)
\* an agent result that counts: the agent ran and did not fail
Counted(ar) == ~ar.Skipped /\ ar.Error = Nil

\* C25: IsConverged is true exactly when TotalChanges is 0 and no agent that
\* ran without error has changed beads; a skipped or failed agent never blocks
\* convergence, a positive TotalChanges always does, and a round without
\* agent results and without changes is converged.
C25_IsConvergedExactly ==
    detLast.op = "IsConverged" =>
        LET res == detLast.arg IN
        /\ detLast.ret <=>
              /\ res.TotalChanges = 0
              /\ ~\E k \in DOMAIN res.AgentResults :
                     /\ Counted(res.AgentResults[k])
                     /\ res.AgentResults[k].BeadsChanged # <<>>
        /\ res.TotalChanges > 0 => ~detLast.ret
        /\ (res.TotalChanges = 0 /\ res.AgentResults = <<>>) => detLast.ret

C25_Witness ==
    /\ detLast.op = "IsConverged"
    /\ detLast.ret
    /\ \E k \in DOMAIN detLast.arg.AgentResults :
          /\ ~Counted(detLast.arg.AgentResults[k])
          /\ detLast.arg.AgentResults[k].BeadsChanged # <<>>

\* the converged rounds at the end of a history, back to the last round with
\* changes or the last reset
RECURSIVE TrailingConverged(_)
TrailingConverged(h) ==
    IF h = <<>> THEN 0
    ELSE IF h[Len(h)] = "converged"
         THEN 1 + TrailingConverged(SubSeq(h, 1, Len(h) - 1))
         ELSE 0

\* C26: after any sequence of CheckConvergence and Reset calls the streak is
\* the number of converged rounds checked since the last round that was not
\* converged or the last Reset, and CheckConvergence returns true exactly when
\* that streak has reached the threshold.
C26_StreakCountsConvergedRounds ==
    /\ ConsecutiveNoChangeRounds(convDetector) = TrailingConverged(detHistory)
    /\ detLast.op = "CheckConvergence" =>
          (detLast.ret <=> TrailingConverged(detHistory) >= convDetector.threshold)

C26_Witness ==
    /\ convDetector.threshold = 2
    /\ detHistory = <<"converged", "converged">>
    /\ detLast.op = "CheckConvergence"
    /\ detLast.ret

\* C27: the threshold is at least 1 at all times: 1 for a new detector, n
\* after SetThreshold(n) with n >= 1 and 1 after any other SetThreshold, and
\* no CheckConvergence, IsConverged or Reset changes it.
C27_ThresholdAtLeastOne ==
    /\ [](/\ convDetector.threshold >= 1
          /\ detLast = NoCall => convDetector.threshold = 1
          /\ detLast.op = "SetThreshold" =>
                convDetector.threshold = IF detLast.arg >= 1 THEN detLast.arg ELSE 1)
    /\ [][detLast'.op \in {"CheckConvergence", "IsConverged", "Reset"} =>
             convDetector'.threshold = convDetector.threshold]_vars

C27_Witness ==
    /\ detLast.op = "SetThreshold"
    /\ detLast.arg < 1
    /\ convDetector.threshold = 1
    /\ detHistory # <<>>

(***************************************************************************)
(* session.RunOneShot: one call, with the child process it runs and the    *)
(* deadline of its context.                                                *)
(*                                                                         *)
(* An error value is a record of its type and its number, so that errors   *)
(* of different types can be compared.                                     *)
(***************************************************************************)
NilError == [type |-> "nil", arg |-> 0]

\* os/exec: the binary is not there
NotFound == [type |-> "exec: not found", arg |-> 0]

\* ctx.Err() once the deadline has passed
DeadlineExceeded == [type |-> "context deadline exceeded", arg |-> 0]

\* os/exec's *ExitError; ExitCode() is -1 for a process ended by a signal
ExitError(code) == [type |-> "ExitError", arg |-> code]

\* fmt.Errorf("agent exited with code %d", exitCode)
AgentExited(code) == [type |-> "agent exited with code", arg |-> code]

\* the exit codes a child ends with by itself
ExitCodes == {0, 1, 42}

\* the lines a child writes, to standard output or to standard error
OneShotLines == {"response", "stderr message"}

\* ag.Parser.Parse
Parse(output) == <<"parsed", output>>

\* what cmd.Run returns once the process is gone
RunError ==
    IF shotProc = "exited"
    THEN IF shotCode = 0 THEN NilError ELSE ExitError(shotCode)
    ELSE ExitError(-1)

\* RunOneShot from the return of cmd.Run on
OneShotOutcome(err, buf) ==
    LET output == IF shotAgent.parser THEN Parse(buf) ELSE buf
        exitCode == IF err # NilError THEN err.arg ELSE 0
    IN  IF err # NilError /\ err.type # "ExitError"
        THEN [returned |-> TRUE,
              result |-> [Output |-> output, ExitCode |-> -1, Error |-> err],
              err |-> err]
        ELSE IF exitCode # 0
        THEN [returned |-> TRUE,
              result |-> [Output |-> output, ExitCode |-> exitCode,
                          Error |-> AgentExited(exitCode)],
              err |-> AgentExited(exitCode)]
        ELSE [returned |-> TRUE,
              result |-> [Output |-> output, ExitCode |-> exitCode,
                          Error |-> NilError],
              err |-> NilError]

\* cmd.Run fails to start the child: the binary is missing or the context has
\* ended already
RunOneShotNotStarted ==
    /\ shotPc = "idle"
    /\ ~shotAgent.found \/ shotCtx # "active"
    /\ shotRet' = OneShotOutcome(IF ~shotAgent.found THEN NotFound
                                 ELSE DeadlineExceeded, outputBuf)
    /\ shotPc' = "returned"
    /\ UNCHANGED <<orchVars, dispatchVars, sessVars, detVars, fnVars, shotAgent, shotCtx,
                   shotProc, shotCode, outputBuf>>

\* cmd.Run starts the child and waits for it
RunOneShotSpawn ==
    /\ shotPc = "idle"
    /\ shotAgent.found
    /\ shotCtx = "active"
    /\ shotProc' = "running"
    /\ shotPc' = "wait"
    /\ UNCHANGED <<orchVars, dispatchVars, sessVars, detVars, fnVars, shotAgent, shotCtx,
                   shotCode, outputBuf, shotRet>>

ChildWrites(line) ==
    /\ shotProc = "running"
    /\ Len(outputBuf) < MaxLines
    /\ outputBuf' = Append(outputBuf, line)
    /\ UNCHANGED <<orchVars, dispatchVars, sessVars, detVars, fnVars, shotPc, shotAgent,
                   shotCtx, shotProc, shotCode, shotRet>>

ChildExits(code) ==
    /\ shotProc = "running"
    /\ shotProc' = "exited"
    /\ shotCode' = code
    /\ UNCHANGED <<orchVars, dispatchVars, sessVars, detVars, fnVars, shotPc, shotAgent,
                   shotCtx, outputBuf, shotRet>>

\* the deadline passes before the call has started the child or while the
\* child runs; exec.CommandContext then kills the child
DeadlinePasses ==
    /\ shotCtx = "active"
    /\ shotPc \in {"idle", "wait"}
    /\ shotProc \in {"none", "running"}
    /\ shotCtx' = "deadline exceeded"
    /\ shotProc' = IF shotProc = "running" THEN "killed" ELSE shotProc
    /\ UNCHANGED <<orchVars, dispatchVars, sessVars, detVars, fnVars, shotPc, shotAgent,
                   shotCode, outputBuf, shotRet>>

\* the child is gone: cmd.Run returns and RunOneShot builds its result
RunOneShotReturn ==
    /\ shotPc = "wait"
    /\ shotProc \in {"exited", "killed"}
    /\ shotRet' = OneShotOutcome(RunError, outputBuf)
    /\ shotPc' = "returned"
    /\ UNCHANGED <<orchVars, dispatchVars, sessVars, detVars, fnVars, shotAgent, shotCtx,
                   shotProc, shotCode, outputBuf>>

NextOneShot ==
    \/ RunOneShotNotStarted
    \/ RunOneShotSpawn
    \/ \E line \in OneShotLines : ChildWrites(line)
    \/ \E code \in ExitCodes : ChildExits(code)
    \/ DeadlinePasses
    \/ RunOneShotReturn

\* a call on any agent: its binary there or not, with or without a parser
InitOneShot ==
    /\ shotPc = "idle"
    /\ shotAgent \in [found : BOOLEAN, parser : BOOLEAN]
    /\ shotCtx = "active"
    /\ shotProc = "none"
    /\ shotCode = 0
    /\ outputBuf = <<>>
    /\ shotRet = [returned |-> FALSE]

OneShotInit ==
    /\ IdleOrchestrator
    /\ IdleDispatch
    /\ NewSession
    /\ IdleDetector
    /\ InitOneShot
    /\ IdleFn

SpecOneShot == OneShotInit /\ [][NextOneShot]_vars

(***************************************************************************)
(* Properties of RunOneShot, checked under SpecOneShot.                    *)
(***************************************************************************)
\* the output RunOneShot hands back for what the child wrote
Captured == IF shotAgent.parser THEN Parse(outputBuf) ELSE outputBuf

\* C30: RunOneShot maps the outcome of the process to its result: exit code
\* 0 gives ExitCode 0 and no error; an exit code c other than 0 gives
\* ExitCode c and the error AgentExited(c), with the captured output still in
\* the result; a call ended by the deadline gives ExitCode -1 and the
\* cancellation reason as its error; and the error returned is always the
\* result's Error.
C30_OutcomeMapsToResult ==
    shotRet.returned =>
        /\ (shotProc = "exited" /\ shotCode = 0) =>
              /\ shotRet.result.ExitCode = 0
              /\ shotRet.err = NilError
        /\ (shotProc = "exited" /\ shotCode # 0) =>
              /\ shotRet.result.ExitCode = shotCode
              /\ shotRet.err = AgentExited(shotCode)
              /\ shotRet.result.Output = Captured
        /\ (shotAgent.found /\ shotCtx = "deadline exceeded") =>
              /\ shotRet.result.ExitCode = -1
              /\ shotRet.err = DeadlineExceeded
        /\ shotRet.err = shotRet.result.Error

(***************************************************************************)
(* Strings of agent output.                                                *)
(*                                                                         *)
(* A string is the sequence of its lines, what strings.Split(s, "\n")      *)
(* yields, and a line is a sequence of tokens: a run of white space, a run *)
(* of other characters, a JSON object cut short, or a whole JSON object.   *)
(* The empty string is one empty line.                                     *)
(***************************************************************************)
EmptyStr == << <<>> >>

\* an event with no field set; an absent string field is the empty string,
\* content is the field of that name when it is a list and contentStr when
\* it is a string
NoEvent ==
    [type |-> "", role |-> "", is_error |-> FALSE, error |-> EmptyStr,
     result |-> EmptyStr, output |-> EmptyStr, content |-> <<>>,
     contentStr |-> EmptyStr,
     item |-> [type |-> "", output |-> EmptyStr, content |-> <<>>]]

Token(kind, chars, ev) == [t |-> kind, s |-> chars, ev |-> ev]
Space == Token("space", " ", NoEvent)
Chars(c) == Token("chars", c, NoEvent)
Truncated == Token("truncated", "{\"type\":\"item\"", NoEvent)
Json(ev) == Token("json", "", ev)

\* a one-line string
Str(c) == << <<Chars(c)>> >>

\* a + b
Concat(a, b) ==
    SubSeq(a, 1, Len(a) - 1) \o <<a[Len(a)] \o b[1]>> \o SubSeq(b, 2, Len(b))

\* a + "\n" + b
JoinLines(a, b) == a \o b

IsSpaceLine(line) == \A k \in DOMAIN line : line[k].t = "space"

\* strings.TrimSpace of one line
RECURSIVE TrimLeft(_)
TrimLeft(line) ==
    IF line # <<>> /\ line[1].t = "space" THEN TrimLeft(Tail(line)) ELSE line

RECURSIVE TrimRight(_)
TrimRight(line) ==
    IF line # <<>> /\ line[Len(line)].t = "space"
    THEN TrimRight(SubSeq(line, 1, Len(line) - 1))
    ELSE line

TrimLine(line) == TrimRight(TrimLeft(line))

\* strings.TrimSpace of a string: new lines are white space too
RECURSIVE DropSpaceLinesLeft(_)
DropSpaceLinesLeft(str) ==
    IF Len(str) > 1 /\ IsSpaceLine(str[1]) THEN DropSpaceLinesLeft(Tail(str)) ELSE str

RECURSIVE DropSpaceLinesRight(_)
DropSpaceLinesRight(str) ==
    IF Len(str) > 1 /\ IsSpaceLine(str[Len(str)])
    THEN DropSpaceLinesRight(SubSeq(str, 1, Len(str) - 1))
    ELSE str

TrimSpace(str) ==
    LET inner == DropSpaceLinesRight(DropSpaceLinesLeft(str))
        n == Len(inner)
    IN  IF n = 1 THEN <<TrimLine(inner[1])>>
        ELSE <<TrimLeft(inner[1])>> \o SubSeq(inner, 2, n - 1) \o <<TrimRight(inner[n])>>

\* strings.HasPrefix(line, "{")
HasBracePrefix(line) == line # <<>> /\ line[1].t \in {"json", "truncated"}

\* json.Unmarshal into a map succeeds
IsJsonObject(line) == Len(line) = 1 /\ line[1].t = "json"

\* strings.Join(parts, "\n")
RECURSIVE JoinParts(_)
JoinParts(parts) ==
    IF parts = <<>> THEN EmptyStr
    ELSE IF Len(parts) = 1 THEN parts[1]
    ELSE JoinLines(parts[1], JoinParts(Tail(parts)))

(***************************************************************************)
(* The output parsers.  A strings.Builder is the string written so far, or *)
(* <<>> while nothing has been written.                                    *)
(***************************************************************************)
Block(type, text, thinking) == [type |-> type, text |-> text, thinking |-> thinking]

\* the texts of the non-empty text blocks of a content list, in order
RECURSIVE TextParts(_)
TextParts(content) ==
    IF content = <<>> THEN <<>>
    ELSE LET c == content[1] IN
         (IF c.type = "text" /\ c.text # EmptyStr THEN <<c.text>> ELSE <<>>)
            \o TextParts(Tail(content))

\* StreamJSONParser.extractFromAssistant; the event's content is message.content
StreamExtractFromAssistant(ev) == JoinParts(TextParts(ev.content))

\* StreamJSONParser.extractFromResult
StreamExtractFromResult(ev) ==
    IF ev.is_error /\ ev.error # EmptyStr THEN ev.error
    ELSE IF ev.result # EmptyStr THEN ev.result
    ELSE EmptyStr

\* StreamJSONParser.extractFromLine
StreamExtractFromLine(line) ==
    IF ~IsJsonObject(line) THEN EmptyStr
    ELSE LET event == line[1].ev IN
         IF event.type = "assistant" THEN StreamExtractFromAssistant(event)
         ELSE IF event.type = "result" THEN StreamExtractFromResult(event)
         ELSE EmptyStr

\* the loop of StreamJSONParser.Parse over the lines left, result so far
RECURSIVE StreamScan(_, _)
StreamScan(lines, built) ==
    IF lines = <<>> THEN built
    ELSE LET line == TrimLine(lines[1])
             extracted == StreamExtractFromLine(line)
         IN  IF line = <<>> \/ ~HasBracePrefix(line) THEN StreamScan(Tail(lines), built)
             ELSE IF extracted # EmptyStr
             THEN StreamScan(Tail(lines), JoinLines(built, extracted))
             ELSE StreamScan(Tail(lines), built)

\* mutant: with nothing extracted the empty string is returned
StreamJSONParse_EmptyOnNothing(output) ==
    IF output = EmptyStr \/ TrimSpace(output) = EmptyStr THEN output
    ELSE LET built == StreamScan(output, <<>>) IN
         IF Len(built) = 0 THEN EmptyStr ELSE built

\* mutant: the fragments are written newest first
StreamJSONParse_NewestFirst(output) ==
    LET Rev(q) == [k \in 1..Len(q) |-> q[Len(q) + 1 - k]]
        built == StreamScan(Rev(output), <<>>)
    IN  IF output = EmptyStr \/ TrimSpace(output) = EmptyStr THEN output
        ELSE IF Len(built) = 0 THEN output ELSE built

StreamJSONParse(output) ==
    IF output = EmptyStr \/ TrimSpace(output) = EmptyStr THEN output
    ELSE LET built == StreamScan(output, <<>>) IN
         IF Len(built) = 0 THEN output ELSE built

\* the texts and thinking of a message item's content blocks, in order
RECURSIVE CodexParts(_)
CodexParts(content) ==
    IF content = <<>> THEN <<>>
    ELSE LET c == content[1] IN
         (IF c.type = "text" /\ c.text # EmptyStr THEN <<c.text>>
          ELSE IF c.type = "thinking" /\ c.thinking # EmptyStr THEN <<c.thinking>>
          ELSE <<>>)
            \o CodexParts(Tail(content))

\* CodexParser.extractFromMessage
CodexExtractFromMessage(item) == JoinParts(CodexParts(item.content))

\* CodexParser.extractFromItem
CodexExtractFromItem(ev) ==
    IF ev.item.type = "message" THEN CodexExtractFromMessage(ev.item)
    ELSE IF ev.item.type = "function_call_output" THEN ev.item.output
    ELSE EmptyStr

\* CodexParser.extractFromLine
CodexExtractFromLine(line) ==
    IF ~IsJsonObject(line) THEN EmptyStr
    ELSE LET event == line[1].ev IN
         IF event.type = "item" THEN CodexExtractFromItem(event)
         ELSE IF event.type = "aggregated_output" THEN event.output
         ELSE EmptyStr

RECURSIVE CodexScan(_, _)
CodexScan(lines, built) ==
    IF lines = <<>> THEN built
    ELSE LET line == TrimLine(lines[1])
             extracted == CodexExtractFromLine(line)
         IN  IF line = <<>> THEN CodexScan(Tail(lines), built)
             ELSE IF ~HasBracePrefix(line) THEN CodexScan(Tail(lines), built)
             ELSE IF extracted # EmptyStr
             THEN CodexScan(Tail(lines), JoinLines(built, extracted))
             ELSE CodexScan(Tail(lines), built)

CodexParse(output) ==
    IF output = EmptyStr \/ TrimSpace(output) = EmptyStr THEN output
    ELSE LET built == CodexScan(output, <<>>) IN
         IF Len(built) = 0 THEN output ELSE built

\* GeminiParser.extractFromLine
GeminiExtractFromLine(line) ==
    IF ~IsJsonObject(line) THEN EmptyStr
    ELSE LET event == line[1].ev IN
         IF event.type = "message" /\ event.role = "assistant"
         THEN event.contentStr
         ELSE EmptyStr

\* the deltas are written one after the other, without new lines
RECURSIVE GeminiScan(_, _)
GeminiScan(lines, built) ==
    IF lines = <<>> THEN built
    ELSE LET line == TrimLine(lines[1])
             extracted == GeminiExtractFromLine(line)
         IN  IF line = <<>> \/ ~HasBracePrefix(line) THEN GeminiScan(Tail(lines), built)
             ELSE IF extracted # EmptyStr
             THEN GeminiScan(Tail(lines),
                             IF built = <<>> THEN extracted
                             ELSE Concat(built, extracted))
             ELSE GeminiScan(Tail(lines), built)

GeminiParse(output) ==
    IF output = EmptyStr \/ TrimSpace(output) = EmptyStr THEN output
    ELSE LET built == GeminiScan(output, <<>>) IN
         IF Len(built) = 0 THEN output ELSE built

\* AuggieParser.Parse; a result event carries its result field
AuggieParse(output) ==
    IF output = EmptyStr \/ TrimSpace(output) = EmptyStr THEN output
    ELSE LET trimmed == TrimSpace(output) IN
         IF ~HasBracePrefix(trimmed[1]) THEN trimmed
         ELSE IF ~(Len(trimmed) = 1 /\ IsJsonObject(trimmed[1])) THEN trimmed
         ELSE LET event == trimmed[1][1].ev IN
              IF event.type = "result"
              THEN IF event.is_error /\ event.error # EmptyStr THEN event.error
                   ELSE TrimSpace(event.result)
              ELSE trimmed

(***************************************************************************)
(* One call of a parser on any agent output of up to MaxParseLines lines.  *)
(***************************************************************************)
\* the events tried: of every dialect, some that carry text and some that do
\* not
Events ==
    {[NoEvent EXCEPT !.type = "system"],
     [NoEvent EXCEPT !.type = "assistant",
                     !.content = <<Block("text", Str("Hello there"), EmptyStr)>>],
     [NoEvent EXCEPT !.type = "assistant",
                     !.content = <<Block("tool_use", EmptyStr, EmptyStr),
                                   Block("text", Str("First"), EmptyStr),
                                   Block("text", Str("Second"), EmptyStr)>>],
     [NoEvent EXCEPT !.type = "result",
                     !.result = << <<Space, Chars("Done"), Space>> >>],
     [NoEvent EXCEPT !.type = "result", !.is_error = TRUE,
                     !.error = Str("rate limited")],
     [NoEvent EXCEPT !.type = "item", !.item.type = "message",
                     !.item.content = <<Block("thinking", EmptyStr, Str("Let me see")),
                                        Block("text", Str("Answer"), EmptyStr)>>],
     [NoEvent EXCEPT !.type = "item", !.item.type = "function_call_output",
                     !.item.output = Str("ok")],
     [NoEvent EXCEPT !.type = "aggregated_output", !.output = Str("total")],
     [NoEvent EXCEPT !.type = "aggregated_output"],
     [NoEvent EXCEPT !.type = "message", !.role = "assistant",
                     !.contentStr = Str("Hello!")],
     [NoEvent EXCEPT !.type = "message", !.role = "assistant",
                     !.contentStr = << <<Space, Chars("How can I help?")>> >>],
     [NoEvent EXCEPT !.type = "message", !.role = "user",
                     !.contentStr = Str("Say hello")]}

\* what a line holds between its white space
LineBodies ==
    {<<Chars("This is plain text output")>>, <<Truncated>>}
        \cup {<<Json(ev)>> : ev \in Events}

\* the lines tried: empty, white space, and every body with and without
\* white space around it
InputLines ==
    {<<>>, <<Space>>} \cup LineBodies \cup {<<Space>> \o b \o <<Space>> : b \in LineBodies}

Outputs4Parse == UNION {[1..n -> InputLines] : n \in 1..MaxParseLines}

ParseWith(name, P(_)) ==
    /\ fnName = "none"
    /\ fnName' = name
    /\ fnRet' = P(fnArg)
    /\ UNCHANGED <<orchVars, dispatchVars, sessVars, detVars, shotVars, fnArg>>

ClaudeParserParse == ParseWith("StreamJSONParser", StreamJSONParse)
CodexParserParse == ParseWith("CodexParser", CodexParse)
GeminiParserParse == ParseWith("GeminiParser", GeminiParse)
AuggieParserParse == ParseWith("AuggieParser", AuggieParse)

NextParsers ==
    \/ ClaudeParserParse
    \/ CodexParserParse
    \/ GeminiParserParse
    \/ AuggieParserParse

InitParsers ==
    /\ fnName = "none"
    /\ fnArg \in Outputs4Parse
    /\ fnRet = <<>>

ParsersInit ==
    /\ IdleOrchestrator
    /\ IdleDispatch
    /\ NewSession
    /\ IdleDetector
    /\ IdleOneShot
    /\ InitParsers

SpecParsers == ParsersInit /\ [][NextParsers]_vars

(***************************************************************************)
(* Properties of the parsers, checked under SpecParsers.                   *)
(***************************************************************************)
LineParsers == {"StreamJSONParser", "CodexParser", "GeminiParser"}

\* what the parser called extracts from one line of its input
Fragment(line) ==
    LET trimmed == TrimLine(line) IN
    IF trimmed = <<>> \/ ~HasBracePrefix(trimmed) THEN EmptyStr
    ELSE IF fnName = "StreamJSONParser" THEN StreamExtractFromLine(trimmed)
    ELSE IF fnName = "CodexParser" THEN CodexExtractFromLine(trimmed)
    ELSE GeminiExtractFromLine(trimmed)

\* the fragments of the input, first line first
Fragments ==
    LET extracting == SelectSeq(fnArg, LAMBDA line : Fragment(line) # EmptyStr)
    IN  [k \in 1..Len(extracting) |-> Fragment(extracting[k])]

\* C32: a line-oriented parser returns its input unchanged whenever its pass
\* over the lines extracts no fragment: from empty or blank input, plain
\* text, JSON cut short, or events that yield nothing.
C32_NothingExtractedReturnsInput ==
    (fnName \in LineParsers /\ Fragments = <<>>) => fnRet = fnArg

C32_Witness ==
    /\ fnName = "CodexParser"
    /\ Len(fnArg) = 2
    /\ fnArg[1] = <<Space, Truncated, Space>>
    /\ fnArg[2] = <<Json([NoEvent EXCEPT !.type = "aggregated_output"])>>
    /\ fnRet = fnArg

\* C33: the stream-JSON and the Codex parser put the fragments they extract
\* in the output in the order of their events in the input, one fragment for
\* each extracting event, with one new line between two fragments.
C33_FragmentsInInputOrder ==
    (fnName \in {"StreamJSONParser", "CodexParser"} /\ Fragments # <<>>) =>
        fnRet = JoinParts(Fragments)

C33_Witness ==
    /\ fnName = "StreamJSONParser"
    /\ Len(Fragments) = 2
    /\ Fragments[1] # Fragments[2]
    /\ fnRet = JoinLines(Fragments[1], Fragments[2])

\* the input is not a JSON object: it is plain text or JSON cut short
NotJson(str) ==
    /\ TrimSpace(str) # EmptyStr
    /\ ~(Len(TrimSpace(str)) = 1 /\ IsJsonObject(TrimSpace(str)[1]))

\* C34: on input that is not JSON or is malformed JSON the Auggie parser
\* returns the very string it was given, the white space at its ends
\* included.
C34_AuggieReturnsInputOnBadJson ==
    (fnName = "AuggieParser" /\ NotJson(fnArg)) => fnRet = fnArg

(***************************************************************************)
(* context.defaultBuilder with the tracker's answers spelled out: `bd list`*)
(* fails or prints the ids of the beads, and `bd show` of each id fails or *)
(* prints that bead.                                                       *)
(***************************************************************************)
BeadIds == 1..MaxBeads

\* what the bd binary does in one refresh
TrackerAnswers ==
    {[listOk |-> ok, ids |-> ids, showOk |-> sh] :
        ok \in BOOLEAN,
        ids \in {[k \in 1..n |-> k] : n \in 0..MaxBeads},
        sh \in SUBSET BeadIds}

\* the `bd show` outputs appended, in the order of the ids
RECURSIVE BeadDetails(_, _)
BeadDetails(ids, showOk) ==
    IF ids = <<>> THEN <<>>
    ELSE (IF ids[1] \in showOk THEN <<<<"bd show", ids[1]>>>> ELSE <<>>)
            \o BeadDetails(Tail(ids), showOk)

\* RefreshBeadsState: the context it leaves and the error it returns
RefreshBeadsStateOn(ctx, bd) ==
    IF ~bd.listOk
    THEN [ctx |-> [ctx EXCEPT !.BeadsState = Placeholder], err |-> Nil]
    ELSE LET buf == <<"=== Beads List ===", bd.ids>>
                       \o (IF Len(bd.ids) > 0
                           THEN <<"=== Bead Details ===">> \o BeadDetails(bd.ids, bd.showOk)
                           ELSE <<>>)
         IN  [ctx |-> [ctx EXCEPT !.BeadsState = buf], err |-> Nil]

\* Build: the context and the error it returns
BuildOn(prompt, agentsPath, rnd, isFirstTurn, bd) ==
    RefreshBeadsStateOn([Prompt |-> prompt, AgentsPath |-> agentsPath,
                         BeadsState |-> EmptyString, Round |-> rnd,
                         IsFirstTurn |-> isFirstTurn], bd)

\* the planning contexts a caller refreshes
BuilderContexts ==
    {[DirectContext EXCEPT !.Round = r, !.IsFirstTurn = f, !.BeadsState = b] :
        r \in 1..MaxRounds, f \in BOOLEAN, b \in {EmptyString, Placeholder}}

BuilderBuild ==
    /\ fnName = "none"
    /\ fnName' = "Build"
    /\ fnRet' = BuildOn(fnArg.ctx.Prompt, fnArg.ctx.AgentsPath, fnArg.ctx.Round,
                        fnArg.ctx.IsFirstTurn, fnArg.bd)
    /\ UNCHANGED <<orchVars, dispatchVars, sessVars, detVars, shotVars, fnArg>>

BuilderRefreshBeadsState ==
    /\ fnName = "none"
    /\ fnName' = "RefreshBeadsState"
    /\ fnRet' = RefreshBeadsStateOn(fnArg.ctx, fnArg.bd)
    /\ UNCHANGED <<orchVars, dispatchVars, sessVars, detVars, shotVars, fnArg>>

NextBuilder ==
    \/ BuilderBuild
    \/ BuilderRefreshBeadsState

InitBuilder ==
    /\ fnName = "none"
    /\ fnArg \in [ctx : BuilderContexts, bd : TrackerAnswers]
    /\ fnRet = <<>>

BuilderInit ==
    /\ IdleOrchestrator
    /\ IdleDispatch
    /\ NewSession
    /\ IdleDetector
    /\ IdleOneShot
    /\ InitBuilder

SpecBuilder == BuilderInit /\ [][NextBuilder]_vars

(***************************************************************************)
(* Properties of the context builder, checked under SpecBuilder.           *)
(***************************************************************************)
\* a read of the tracker failed: `bd list`, or `bd show` of a listed bead
TrackerReadFailed(bd) ==
    \/ ~bd.listOk
    \/ \E k \in DOMAIN bd.ids : bd.ids[k] \notin bd.showOk

\* C31: Build and RefreshBeadsState never fail because of the tracker: when
\* `bd list` or a `bd show` fails they put the placeholder in BeadsState,
\* return success and leave every other field of the context as it was.
C31_TrackerFailureGivesPlaceholder ==
    fnName \in {"Build", "RefreshBeadsState"} =>
        /\ fnRet.err = Nil
        /\ [fnRet.ctx EXCEPT !.BeadsState = EmptyString]
              = [fnArg.ctx EXCEPT !.BeadsState = EmptyString]
        /\ TrackerReadFailed(fnArg.bd) => fnRet.ctx.BeadsState = Placeholder


(***************************************************************************)
(* The text of the beads diff.  A snapshot is the output of `bd list       *)
(* --json`, a string; here a string is the sequence of its characters,     *)
(* and a fixed text such as "(no changes)" or "- " is one element.         *)
(***************************************************************************)
MaxDiffLen == 3

Newline == "\n"

DiffChars == {"a", "b", Newline}

\* the snapshots tried: every string of up to MaxDiffLen characters
Snapshots == UNION {[1..n -> DiffChars] : n \in 0..MaxDiffLen}

\* orchestrator.splitLines: the loop from position k on, the current line
\* having started at start
RECURSIVE splitLinesFrom(_, _, _, _)
splitLinesFrom(str, start, k, lines) ==
    IF k > Len(str)
    THEN IF start <= Len(str)
         THEN Append(lines, SubSeq(str, start, Len(str)))
         ELSE lines
    ELSE IF str[k] = Newline
    THEN splitLinesFrom(str, k + 1, k + 1, Append(lines, SubSeq(str, start, k - 1)))
    ELSE splitLinesFrom(str, start, k + 1, lines)

splitLines(str) == splitLinesFrom(str, 1, 1, <<>>)

\* the set a map[string]bool is filled with
LineSet(lines) == {lines[k] : k \in DOMAIN lines}

\* diff += mark + line + "\n" for each of the lines in turn that is not empty
\* and not in the other snapshot's set
RECURSIVE MarkedLines(_, _, _)
MarkedLines(mark, lines, others) ==
    IF lines = <<>> THEN <<>>
    ELSE (IF Head(lines) \notin others /\ Head(lines) # <<>>
          THEN <<mark>> \o Head(lines) \o <<Newline>>
          ELSE <<>>) \o MarkedLines(mark, Tail(lines), others)

\* the removed lines, then the added lines
LineDiff(before, after) ==
    LET beforeLines == splitLines(before)
        afterLines == splitLines(after)
    IN  MarkedLines("- ", beforeLines, LineSet(afterLines))
           \o MarkedLines("+ ", afterLines, LineSet(beforeLines))

computeSimpleDiff(before, after) ==
    LET diff == LineDiff(before, after) IN
    IF diff = <<>> THEN <<"(whitespace changes only)">> ELSE diff

\* orchestrator.diffBeadsState on the snapshots' text
diffBeadsStateText(before, after) ==
    IF before = after THEN <<"(no changes)">>
    ELSE IF before = <<>> THEN <<"(beads initialized)", Newline>> \o after
    ELSE IF after = <<>> THEN <<"(beads cleared)">>
    ELSE computeSimpleDiff(before, after)

DiffBeadsState ==
    /\ fnName = "none"
    /\ fnName' = "diffBeadsState"
    /\ fnRet' = diffBeadsStateText(fnArg.before, fnArg.after)
    /\ UNCHANGED <<orchVars, dispatchVars, sessVars, detVars, shotVars, fnArg>>

NextDiff == DiffBeadsState

InitDiff ==
    /\ fnName = "none"
    /\ fnArg \in [before : Snapshots, after : Snapshots]
    /\ fnRet = <<>>

DiffInit ==
    /\ IdleOrchestrator
    /\ IdleDispatch
    /\ NewSession
    /\ IdleDetector
    /\ IdleOneShot
    /\ InitDiff

SpecDiff == DiffInit /\ [][NextDiff]_vars

(***************************************************************************)
(* Properties of the beads diff, checked under SpecDiff.                   *)
(***************************************************************************)
\* C40: the beadsDiff of a pre- and a post-turn snapshot is their line-level
\* symmetric difference: it is "(no changes)" exactly when the snapshots are
\* equal, and otherwise it is made of "- <line>" for each non-empty line
\* that only the pre-snapshot has and "+ <line>" for each non-empty line that
\* only the post-snapshot has.
C40_DiffIsSymmetricDifference ==
    fnName = "diffBeadsState" =>
        /\ (fnRet = <<"(no changes)">>) <=> (fnArg.before = fnArg.after)
        /\ fnArg.before # fnArg.after =>
              fnRet = LineDiff(fnArg.before, fnArg.after)

\* the same where both snapshots have text and differ in some non-empty line
C40_BothPresentAndDiffering ==
    (/\ fnName = "diffBeadsState"
     /\ fnArg.before # <<>>
     /\ fnArg.after # <<>>
     /\ LineSet(splitLines(fnArg.before)) \ {<<>>}
           # LineSet(splitLines(fnArg.after)) \ {<<>>}) =>
        fnRet = LineDiff(fnArg.before, fnArg.after)

=============================================================================
